---- MODULE Spec2Model ----
(***************************************************************************)
(* Model of the Arch Linux installer (src/src/main.rs): the persisted      *)
(* configuration record (AppConfig), the prompts (Question), the external  *)
(* command runner (run_command) and the 34-step sequencer loop of main.    *)
(*                                                                         *)
(* Text is a sequence of one-character strings.  An Option<String> is a    *)
(* sequence of length 0 (None) or 1 (Some(text)); the configuration file   *)
(* is likewise <<>> when it does not exist and <<content>> when it does.   *)
(***************************************************************************)
EXTENDS Integers, Sequences, FiniteSets, TLC

INSTALLATION_STEPS_COUNT == 34

\* the program is started again only on a record whose lines are at most
\* this long (a name that is reloaded can grow at every start)
MaxLine == 10
\* times the operator answers yes to one step's question
MaxRetries == 2

VARIABLES
    pc,          \* where main is: "start", "load", "ask_resume", "loop", "ask"
                 \* (a step's yes/no question after a failure), "finish", or
                 \* how it ended: "quit", "done", "aborted", "panicked",
                 \* "reboot_failed"
    app_config,  \* the AppConfig of main
    answer,      \* question.answer
    file,        \* ./arch_linux_installer.conf
    cmds,        \* the operations of the step body under way, with results
    lastStep,    \* the step whose body ran last in this invocation, 0: none
    good         \* the record of the last completed step: the file as the
                 \* header of the step under way found the record in memory
                 \* (as this invocation found it and resumed from it, for
                 \* its first step); <<>> when there is none

vars == <<pc, app_config, answer, file, cmds, lastStep, good>>

\* ------------------------------------------------------------------ text

None == <<>>
Some(v) == <<v>>
IsSome(o) == Len(o) = 1
Unwrap(o) == o[1]

NL == "\n"
QUOTE == "\""
BACKSLASH == "\\"

Digits == <<"0", "1", "2", "3", "4", "5", "6", "7", "8", "9">>

IsDigit(c) == \E i \in 1..10 : Digits[i] = c

DigitVal(c) == (CHOOSE i \in 1..10 : Digits[i] = c) - 1

RECURSIVE Join(_, _)
Join(ss, sep) ==
    IF Len(ss) = 0 THEN <<>>
    ELSE IF Len(ss) = 1 THEN ss[1]
    ELSE ss[1] \o <<sep>> \o Join(Tail(ss), sep)

\* str::split(sep) for a one-character separator: n separators give n+1
\* pieces, the texts between one separator (or the start) and the next (or
\* the end)
Split(s, sep) ==
    LET at == {i \in 1..Len(s) : s[i] = sep}
        cut(k) == IF k = 0 THEN 0
                  ELSE IF k > Cardinality(at) THEN Len(s) + 1
                  ELSE CHOOSE i \in at : Cardinality({j \in at : j < i}) = k - 1
    IN  [k \in 1..(Cardinality(at) + 1) |-> SubSeq(s, cut(k - 1) + 1, cut(k) - 1)]

Contains(s, c) == \E i \in 1..Len(s) : s[i] = c

IsSpace(c) == c \in {" ", "\t", NL, "\r"}

\* str::trim
RECURSIVE TrimStart(_)
TrimStart(s) == IF s # <<>> /\ IsSpace(Head(s)) THEN TrimStart(Tail(s)) ELSE s

RECURSIVE TrimEnd(_)
TrimEnd(s) ==
    IF s # <<>> /\ IsSpace(s[Len(s)]) THEN TrimEnd(SubSeq(s, 1, Len(s) - 1)) ELSE s

Trim(s) == TrimEnd(TrimStart(s))

\* {} of a u8: decimal, no leading zeros
RECURSIVE FormatU8(_)
FormatU8(n) ==
    IF n < 10 THEN <<Digits[n + 1]>>
    ELSE FormatU8(n \div 10) \o <<Digits[(n % 10) + 1]>>

RECURSIVE DecValue(_, _)
DecValue(s, acc) ==
    IF s = <<>> THEN acc ELSE DecValue(Tail(s), acc * 10 + DigitVal(Head(s)))

\* str::parse::<u8>: an optional "+", then one or more digits, value <= 255.
\* The result is the number, or -1 for Err.
ParseU8(s) ==
    LET body == IF s # <<>> /\ Head(s) = "+" THEN Tail(s) ELSE s IN
    IF body = <<>> \/ \E i \in 1..Len(body) : ~IsDigit(body[i]) THEN -1
    ELSE IF DecValue(body, 0) > 255 THEN -1
    ELSE DecValue(body, 0)

\* {} of a bool
FormatBool(b) == IF b THEN <<"t", "r", "u", "e">> ELSE <<"f", "a", "l", "s", "e">>

\* {:?} of a str: the text between double quotes, with " and \ escaped
RECURSIVE EscapeDebug(_)
EscapeDebug(s) ==
    IF s = <<>> THEN <<>>
    ELSE (IF Head(s) \in {QUOTE, BACKSLASH} THEN <<BACKSLASH, Head(s)>> ELSE <<Head(s)>>)
         \o EscapeDebug(Tail(s))

\* {:?} of an Option<String>
FormatOption(o) ==
    IF IsSome(o)
    THEN <<"S", "o", "m", "e", "(", QUOTE>> \o EscapeDebug(Unwrap(o)) \o <<QUOTE, ")">>
    ELSE <<"N", "o", "n", "e">>

\* ------------------------------------------------------------ AppConfig

\* AppConfig::new
New(total_installation_steps) ==
    [uefi_install |-> FALSE,
     uefi_partition |-> None,
     boot_partition |-> None,
     root_partition |-> <<>>,
     home_partition |-> None,
     username |-> <<>>,
     encrypted_partitons |-> FALSE,
     swap_partition |-> None,
     current_installation_step |-> 1,
     total_installation_steps |-> total_installation_steps]

\* a reset that only rewinds the step and keeps the collected answers
resetKeepsAnswers(c) == [c EXCEPT !.current_installation_step = 1]

\* AppConfig::reset: every collected answer back to its default, step 1;
\* total_installation_steps is not touched
reset(c) ==
    [New(c.total_installation_steps) EXCEPT
        !.total_installation_steps = c.total_installation_steps]

\* the ten lines save_config formats, in order
ConfigLines(c) ==
    <<FormatBool(c.uefi_install),
      FormatOption(c.uefi_partition),
      FormatOption(c.boot_partition),
      c.root_partition,
      FormatOption(c.home_partition),
      c.username,
      FormatBool(c.encrypted_partitons),
      FormatOption(c.swap_partition),
      FormatU8(c.current_installation_step),
      FormatU8(c.total_installation_steps)>>

\* a save that records the step after the one being entered
save_configOfNextStep(c) ==
    Join(ConfigLines([c EXCEPT !.current_installation_step = @ + 1]), NL)

\* AppConfig::save_config: the text written to ./arch_linux_installer.conf
save_config(c) == Join(ConfigLines(c), NL)

\* AppConfig::extract_some_value: the second piece of a split at double
\* quotes; <<>> (no value) stands for the index-out-of-bounds panic
extract_some_value(some) ==
    LET pieces == Split(some, QUOTE) IN
    IF Len(pieces) < 2 THEN <<>> ELSE <<pieces[2]>>

\* one optional line of the record: [ok, v]
LoadOption(e) ==
    IF e = <<"N", "o", "n", "e">> THEN [ok |-> TRUE, v |-> None]
    ELSE LET x == extract_some_value(e) IN
         IF x = <<>> THEN [ok |-> FALSE, v |-> None]
         ELSE [ok |-> TRUE, v |-> Some(x[1])]

LoadBool(e) == e = <<"t", "r", "u", "e">>

\* AppConfig::load_config on the file f (<<>>: no file).  status is
\* "err" (the read failed: Err is returned), "panic" (an index out of
\* bounds, or a parse of the step numbers that fails) or "ok" with the
\* loaded record in cfg.
load_config(f, c) ==
    IF f = <<>> THEN [status |-> "err", cfg |-> c]
    ELSE
    LET app_config_elements == Split(f[1], NL)
        n == Len(app_config_elements)
        uefi_partition == LoadOption(app_config_elements[2])
        boot_partition == LoadOption(app_config_elements[3])
        home_partition == LoadOption(app_config_elements[5])
        swap_partition == LoadOption(app_config_elements[8])
        current_installation_step == ParseU8(app_config_elements[9])
        total_installation_steps == ParseU8(app_config_elements[10])
    IN  IF n < 10 THEN [status |-> "panic", cfg |-> c]
        ELSE IF \/ ~uefi_partition.ok
                \/ ~boot_partition.ok
                \/ ~home_partition.ok
                \/ ~swap_partition.ok
                \/ current_installation_step = -1
                \/ total_installation_steps = -1
        THEN [status |-> "panic", cfg |-> c]
        ELSE [status |-> "ok",
              cfg |-> [uefi_install |-> LoadBool(app_config_elements[1]),
                       uefi_partition |-> uefi_partition.v,
                       boot_partition |-> boot_partition.v,
                       root_partition |-> app_config_elements[4],
                       home_partition |-> home_partition.v,
                       username |-> app_config_elements[6],
                       encrypted_partitons |-> LoadBool(app_config_elements[7]),
                       swap_partition |-> swap_partition.v,
                       current_installation_step |-> current_installation_step,
                       total_installation_steps |-> total_installation_steps]]

\* ------------------------------------------------------------- Question

\* Question::ask: the line read, trimmed
ask(line) == Trim(line)

\* a bool_ask that takes every text other than y and Y as a no
bool_askTakesTheRestAsNo(lines) ==
    IF lines = <<>> THEN [done |-> FALSE, answer |-> <<>>, value |-> FALSE]
    ELSE [done |-> TRUE, answer |-> ask(Head(lines)),
          value |-> ask(Head(lines)) \in {<<"y">>, <<"Y">>}]

\* Question::bool_ask on the lines the operator types one after the other:
\* the loop ends at the first line whose trimmed text is y, Y, n or N.
\* done = FALSE: every line was rejected and the question is asked again.
RECURSIVE bool_ask(_)
bool_ask(lines) ==
    IF lines = <<>> THEN [done |-> FALSE, answer |-> <<>>, value |-> FALSE]
    ELSE LET a == ask(Head(lines)) IN
         IF a \in {<<"y">>, <<"Y">>} THEN [done |-> TRUE, answer |-> a, value |-> TRUE]
         ELSE IF a \in {<<"n">>, <<"N">>} THEN [done |-> TRUE, answer |-> a, value |-> FALSE]
         ELSE bool_ask(Tail(lines))

\* Question::selecting_ask with `choices` options: the loop ends at the first
\* line whose trimmed text parses as a u8 in 1..choices
RECURSIVE selecting_ask(_, _)
selecting_ask(lines, choices) ==
    IF lines = <<>> THEN [done |-> FALSE, answer |-> <<>>]
    ELSE LET a == Trim(Head(lines))
             num == ParseU8(a)
         IN  IF num # -1 /\ num <= choices /\ num > 0
             THEN [done |-> TRUE, answer |-> a]
             ELSE selecting_ask(Tail(lines), choices)

\* -------------------------------------------------- what the operator types

\* lines typed at a yes/no question, up to the accepted one
YesNoTyped == { << <<"y">> >>, << <<"x">>, <<" ", "N">> >> }

\* lines typed at the installation-mode menu, up to the accepted one
ModeTyped == { << <<"1">> >>, << <<"2">> >>, << <<"3">>, <<"0", "2">> >> }

\* one name for each role; the boot name is a double quote, a character the
\* {:?} formatting of the record escapes
RootLines == { <<" ">>, <<"s", "d", "a", "1">> }
BootLines == { <<QUOTE>> }
UefiLines == { <<"e">> }
HomeLines == { <<"h">> }
SwapLines == { <<"w">> }
UserLines == { <<>>, <<"u">>, <<"v">> }
HostLines == { <<"h">> }
DiskLines == { <<"s">> }
CountryLines == { <<"F">> }
CpuLines == { <<"i">> }
ZoneLines == { <<"E", "/", "L">>, <<"E">> }

\* ------------------------------------------------ operations of a step body

\* One operation a step body performs, in order of execution:
\*   k = "ask"   a prompt; a is the answer left in question.answer
\*   k = "cmd"   run_command; c is the command line, a the text put in {}
\*   k = "try"   run_command inside `if let Err(error) = ...`
\*   k = "find"  find_uuid_in_blkid_command picking the line and the token
\*   k = "out"   process::Command::output()?: only a launch error is noticed
\*   k = "io"    a file read/write/append guarded by expect
\*   k = "print" an error report or the "Installation failed." banner
\* r is the result: "ok"; "fail" (run_command: non-zero exit, Err);
\* "panic" (an unwrap/expect fails); "err" (output(): launch error, Err);
\* "nonzero" (output(): the exit status, which nobody reads, is not 0).
Op(k, c, a) == [k |-> k, c |-> c, a |-> a, r |-> "ok"]
Ask(c, a) == Op("ask", c, a)
Cmd(c, a) == Op("cmd", c, a)
Out(c, a) == Op("out", c, a)
Io(c, a) == Op("io", c, a)
Say(c) == Op("print", c, <<>>)
Try(c, a) == Op("try", c, a)
Find(c, a) == Op("find", c, a)

Maybe(cond, ops) == IF cond THEN ops ELSE <<>>

\* run_command: exit code 0 is Ok, another exit code is Err; no exit code
\* at all (the launch fails, the child is killed by a signal) panics
run_command == {"ok", "fail", "panic"}

\* the results an operation can have
Results(op) ==
    CASE op.k \in {"cmd", "try"} -> run_command
      [] op.k = "find" -> {"ok", "panic"}
      [] op.k = "out" -> {"ok", "nonzero", "err"}
      [] op.k = "io" -> {"ok", "panic"}
      [] OTHER -> {"ok"}

\* results after which the body goes on with its next operation
Continues(r) == r \in {"ok", "nonzero"}

\* the executions of a straight-line body: every operation up to the first
\* one whose result ends the body, each with one of its results
RECURSIVE Executions(_)
Executions(ops) ==
    IF ops = <<>> THEN {<<>>}
    ELSE LET rest == Executions(Tail(ops)) IN
         UNION {IF Continues(r)
                THEN {<<[Head(ops) EXCEPT !.r = r]>> \o t : t \in rest}
                ELSE {<<[Head(ops) EXCEPT !.r = r]>>}
                : r \in Results(Head(ops))}

\* how an execution ends: "ok", "aborted" (main returns Err) or "panicked"
Status(t) ==
    IF t = <<>> \/ Continues(t[Len(t)].r) THEN "ok"
    ELSE IF t[Len(t)].r = "panic" THEN "panicked"
    ELSE "aborted"

\* question.answer after an execution
RECURSIVE LastAnswer(_, _)
LastAnswer(t, before) ==
    IF t = <<>> THEN before
    ELSE IF t[Len(t)].k = "ask" THEN t[Len(t)].a
    ELSE LastAnswer(SubSeq(t, 1, Len(t) - 1), before)

\* ------------------------------------------------------------ step bodies
\* The body of step n, after its header, for the record c, the text ans in
\* question.answer and what the operator types: ops (its operations when all
\* succeed), mid (the record while its commands run) and end (the record
\* when it completes).

\* onErr is what follows a failed command whose Err the step handles itself
\* (k = "try") before it asks the operator; then = "ask" is a body that ends
\* at a yes/no question of the step instead of completing it.
Body(ops, mid, end) ==
    [ops |-> ops, mid |-> mid, end |-> end, onErr |-> <<>>, then |-> "done"]

\* step 1: BIOS / UEFI installation mode
Step1Body(c, typed) ==
    LET a == selecting_ask(typed, 2).answer
        end == IF a = <<"2">> THEN [c EXCEPT !.uefi_install = TRUE] ELSE c
    IN  Body(<<Ask("Which installation mode do you want?", a)>>, end, end)

\* step 2: encrypted partitions
Step2Body(c, typed) ==
    LET b == bool_ask(typed)
        end == IF b.value THEN [c EXCEPT !.encrypted_partitons = TRUE] ELSE c
    IN  Body(<<Ask("Do you want to encrypt your root and home partitions?", b.answer)>>,
             end, end)

\* step 3: timedatectl
Step3Body(c) ==
    Body(<<Cmd("timedatectl set-ntp true", <<>>), Cmd("timedatectl status", <<>>)>>, c, c)

\* step 4: partitioning
Step4Body(c, disk) ==
    Body(<<Cmd("fdisk -l", <<>>),
           Ask("Enter the disk you want to partion.", ask(disk)),
           Cmd("fdisk /dev/{}", ask(disk)),
           Cmd("lsblk", <<>>)>>, c, c)

\* a step 5 that asks for the uefi partition and does not record it
Step5BodyForgetsUefi(c, root, hasBoot, boot, uefi, hasHome, home) ==
    LET b == bool_ask(hasBoot)
        h == bool_ask(hasHome)
        end == [c EXCEPT
                  !.root_partition = ask(root),
                  !.boot_partition = IF b.value THEN Some(ask(boot)) ELSE @,
                  !.home_partition = IF h.value THEN Some(ask(home)) ELSE @]
    IN  Body(<<Ask("Enter the name of your root partition: ", ask(root)),
               Ask("Do you have a separate boot partition?", b.answer)>>
             \o Maybe(b.value, <<Ask("Enter the name of your boot partition: ", ask(boot))>>)
             \o Maybe(c.uefi_install,
                      <<Ask("Enter the name of your uefi partition: ", ask(uefi))>>)
             \o <<Ask("Do you have a separate home partition?", h.answer)>>
             \o Maybe(h.value, <<Ask("Enter the name of your home partition: ", ask(home))>>),
             end, end)

\* step 5: partition names
Step5Body(c, root, hasBoot, boot, uefi, hasHome, home) ==
    LET b == bool_ask(hasBoot)
        h == bool_ask(hasHome)
        end == [c EXCEPT
                  !.root_partition = ask(root),
                  !.boot_partition = IF b.value THEN Some(ask(boot)) ELSE @,
                  !.uefi_partition = IF c.uefi_install THEN Some(ask(uefi)) ELSE @,
                  !.home_partition = IF h.value THEN Some(ask(home)) ELSE @]
    IN  Body(<<Ask("Enter the name of your root partition: ", ask(root)),
               Ask("Do you have a separate boot partition?", b.answer)>>
             \o Maybe(b.value, <<Ask("Enter the name of your boot partition: ", ask(boot))>>)
             \o Maybe(c.uefi_install,
                      <<Ask("Enter the name of your uefi partition: ", ask(uefi))>>)
             \o <<Ask("Do you have a separate home partition?", h.answer)>>
             \o Maybe(h.value, <<Ask("Enter the name of your home partition: ", ask(home))>>),
             end, end)

\* step 6: formatting (and opening the LUKS containers)
Step6Body(c, fmtRoot, fmtBoot, fmtUefi, fmtHome) ==
    LET r == bool_ask(fmtRoot)
        b == bool_ask(fmtBoot)
        u == bool_ask(fmtUefi)
        h == bool_ask(fmtHome)
        enc == c.encrypted_partitons
    IN  Body(<<Ask("Do you want to format your root partition?", r.answer)>>
             \o Maybe(r.value /\ enc,
                      <<Cmd("cryptsetup luksFormat /dev/{}", c.root_partition),
                        Cmd("cryptsetup open /dev/{} cryptroot", c.root_partition),
                        Cmd("mkfs.btrfs -f /dev/mapper/cryptroot", <<>>)>>)
             \o Maybe(r.value /\ ~enc, <<Cmd("mkfs.btrfs -f /dev/{}", c.root_partition)>>)
             \o Maybe(~r.value /\ enc,
                      <<Cmd("cryptsetup open /dev/{} cryptroot", c.root_partition)>>)
             \o Maybe(IsSome(c.boot_partition),
                      <<Ask("Do you want to format your boot partition?", b.answer)>>
                      \o Maybe(b.value,
                               <<Cmd("mkfs.btrfs -f /dev/{}", Unwrap(c.boot_partition))>>))
             \o Maybe(IsSome(c.uefi_partition),
                      <<Ask("Do you want to format your uefi partition?", u.answer)>>
                      \o Maybe(u.value,
                               <<Cmd("mkfs.fat -F32 /dev/{}", Unwrap(c.uefi_partition))>>))
             \o Maybe(IsSome(c.home_partition),
                      <<Ask("Do you want to format your home partition?", h.answer)>>
                      \o Maybe(h.value /\ enc,
                               <<Cmd("cryptsetup luksFormat /dev/{}", Unwrap(c.home_partition)),
                                 Cmd("cryptsetup open /dev/{} crypthome",
                                     Unwrap(c.home_partition)),
                                 Cmd("mkfs.btrfs -f /dev/mapper/crypthome", <<>>)>>)
                      \o Maybe(h.value /\ ~enc,
                               <<Cmd("mkfs.btrfs -f /dev/{}", Unwrap(c.home_partition))>>)
                      \o Maybe(~h.value /\ enc,
                               <<Cmd("cryptsetup open /dev/{} crypthome",
                                     Unwrap(c.home_partition))>>)),
             c, c)

\* step 7: swap
Step7Body(c, hasSwap, swap) ==
    LET w == bool_ask(hasSwap)
        end == IF w.value THEN [c EXCEPT !.swap_partition = Some(ask(swap))] ELSE c
    IN  Body(<<Ask("Do you want to enable swap?", w.answer)>>
             \o Maybe(w.value,
                      <<Ask("Enter name of the swap partition: ", ask(swap)),
                        Cmd("mkswap /dev/{}", ask(swap)),
                        Cmd("swapon /dev/{}", ask(swap))>>),
             end, end)

\* a step 8 that makes /mnt/home whether or not there is a home partition
Step8BodyAlwaysMakesHome(c) ==
    Body(Maybe(c.encrypted_partitons, <<Cmd("mount /dev/mapper/cryptroot /mnt", <<>>)>>)
         \o Maybe(~c.encrypted_partitons, <<Cmd("mount /dev/{} /mnt", c.root_partition)>>)
         \o Maybe(IsSome(c.boot_partition),
                  <<Cmd("mkdir -p /mnt/boot", <<>>),
                    Cmd("mount /dev/{} /mnt/boot", Unwrap(c.boot_partition))>>)
         \o Maybe(IsSome(c.uefi_partition),
                  <<Cmd("mkdir -p /mnt/boot/EFI", <<>>),
                    Cmd("mount /dev/{} /mnt/boot/EFI", Unwrap(c.uefi_partition))>>)
         \o <<Cmd("mkdir -p /mnt/home", <<>>)>>
         \o Maybe(IsSome(c.home_partition),
                  Maybe(c.encrypted_partitons,
                        <<Cmd("mount /dev/mapper/crypthome /mnt/home", <<>>)>>)
                  \o Maybe(~c.encrypted_partitons,
                           <<Cmd("mount /dev/{} /mnt/home", Unwrap(c.home_partition))>>)),
         c, c)

\* step 8: mounting
Step8Body(c) ==
    Body(Maybe(c.encrypted_partitons, <<Cmd("mount /dev/mapper/cryptroot /mnt", <<>>)>>)
         \o Maybe(~c.encrypted_partitons, <<Cmd("mount /dev/{} /mnt", c.root_partition)>>)
         \o Maybe(IsSome(c.boot_partition),
                  <<Cmd("mkdir -p /mnt/boot", <<>>),
                    Cmd("mount /dev/{} /mnt/boot", Unwrap(c.boot_partition))>>)
         \o Maybe(IsSome(c.uefi_partition),
                  <<Cmd("mkdir -p /mnt/boot/EFI", <<>>),
                    Cmd("mount /dev/{} /mnt/boot/EFI", Unwrap(c.uefi_partition))>>)
         \o Maybe(IsSome(c.home_partition),
                  <<Cmd("mkdir -p /mnt/home", <<>>)>>
                  \o Maybe(c.encrypted_partitons,
                           <<Cmd("mount /dev/mapper/crypthome /mnt/home", <<>>)>>)
                  \o Maybe(~c.encrypted_partitons,
                           <<Cmd("mount /dev/{} /mnt/home", Unwrap(c.home_partition))>>)),
         c, c)

\* step 9: mirrors
Step9Body(c, country) ==
    Body(<<Ask("Enter the name of your prefered country for mirrors.", ask(country)),
           Cmd("reflector --latest 10 --country {} --protocol http,https --sort rate --save /etc/pacman.d/mirrorlist",
               ask(country))>>, c, c)

\* step 10: pacman.conf of the live system
Step10Body(c) ==
    Body(<<Io("read /etc/pacman.conf", <<>>), Io("write /etc/pacman.conf", <<>>)>>, c, c)

\* step 11: base system
Step11Body(c, cpu) ==
    Body(<<Ask("What is your system's CPU brand?", ask(cpu)),
           Cmd("pacstrap /mnt base linux linux-firmware {}-ucode sudo helix grub dosfstools mtools networkmanager git base-devel",
               ask(cpu))>>, c, c)

\* step 12: fstab; the exit status of genfstab is not looked at
Step12Body(c) ==
    Body(<<Out("genfstab -U /mnt", <<>>), Io("write /mnt/etc/fstab", <<>>)>>, c, c)

\* a step 13 that converts the swap partition whether or not the volumes
\* are encrypted
Step13BodyWithoutEncryption(c) ==
    Body(Maybe(IsSome(c.swap_partition),
               <<Cmd("swapoff /dev/{}", Unwrap(c.swap_partition)),
                 Cmd("mkfs.ext2 -L cryptswap /dev/{} 1M", Unwrap(c.swap_partition)),
                 Io("read /mnt/etc/fstab and find the swap line", <<>>),
                 Io("write /mnt/etc/fstab", <<>>)>>), c, c)

\* step 13: swap for encryption
Step13Body(c) ==
    Body(Maybe(c.encrypted_partitons /\ IsSome(c.swap_partition),
               <<Cmd("swapoff /dev/{}", Unwrap(c.swap_partition)),
                 Cmd("mkfs.ext2 -L cryptswap /dev/{} 1M", Unwrap(c.swap_partition)),
                 Io("read /mnt/etc/fstab and find the swap line", <<>>),
                 Io("write /mnt/etc/fstab", <<>>)>>), c, c)

\* step 14: pacman.conf of the installed system
Step14Body(c) ==
    Body(<<Io("read /mnt/etc/pacman.conf", <<>>), Io("write /mnt/etc/pacman.conf", <<>>)>>,
         c, c)

\* a step 15 that runs the command with whatever text was entered
Step15BodyRunsAnyZone(c, zone) ==
    Body(<<Ask("Enter your time zone.", ask(zone)),
           Cmd("arch-chroot /mnt ln -sf /mnt/etc/usr/share/zoneinfo/{} /etc/localtime",
               ask(zone))>>, c, c)

\* step 15: time zone.  A text without "/" is reported and ends at the
\* question whether to enter it again; the command itself is not retried.
Step15Body(c, zone) ==
    IF Contains(ask(zone), "/")
    THEN Body(<<Ask("Enter your time zone.", ask(zone)),
                Cmd("arch-chroot /mnt ln -sf /mnt/etc/usr/share/zoneinfo/{} /etc/localtime",
                    ask(zone))>>, c, c)
    ELSE [Body(<<Ask("Enter your time zone.", ask(zone)), Say("Error")>>, c, c)
            EXCEPT !.then = "ask"]

\* step 16: hardware clock
Step16Body(c) == Body(<<Cmd("arch-chroot /mnt hwclock --systohc", <<>>)>>, c, c)

\* step 17: locale
Step17Body(c) ==
    Body(<<Io("read /mnt/etc/locale.gen", <<>>), Io("write /mnt/etc/locale.gen", <<>>),
           Cmd("arch-chroot /mnt locale-gen", <<>>)>>, c, c)

\* step 18: host name
Step18Body(c, host) ==
    Body(<<Ask("Enter your host name: ", ask(host)),
           Io("write /mnt/etc/hostname {}", ask(host))>>, c, c)

\* step 19: hosts file, written from question.answer
Step19Body(c, ans) == Body(<<Io("write /mnt/etc/hosts {}", ans)>>, c, c)

\* step 20: root password, one pass of its loop
Step20Body(c) ==
    [Body(<<Try("arch-chroot /mnt passwd", <<>>)>>, c, c) EXCEPT !.onErr = <<Say("Error")>>]

\* a step 21 that creates the user and does not record the name
Step21BodyForgetsUser(c, user) ==
    [Body(<<Ask("Enter your username: ", ask(user)),
            Try("arch-chroot /mnt useradd -m {}", ask(user))>>,
          c, c)
       EXCEPT !.onErr = <<Say("Error")>>]

\* step 21: user, one pass of its loop
Step21Body(c, user) ==
    [Body(<<Ask("Enter your username: ", ask(user)),
            Try("arch-chroot /mnt useradd -m {}", ask(user))>>,
          c, [c EXCEPT !.username = ask(user)])
       EXCEPT !.onErr = <<Say("Error")>>]

\* step 22: user password, one pass of its loop; the user is question.answer
Step22Body(c, ans) ==
    [Body(<<Try("arch-chroot /mnt passwd {}", ans)>>, c, c) EXCEPT !.onErr = <<Say("Error")>>]

\* step 23: wheel group; the user is question.answer
Step23Body(c, ans) == Body(<<Cmd("arch-chroot /mnt usermod -aG wheel {}", ans)>>, c, c)

\* step 24: sudoers
Step24Body(c) ==
    Body(<<Io("read /mnt/etc/sudoers", <<>>), Io("write /mnt/etc/sudoers", <<>>)>>, c, c)

\* a step 25 that installs efibootmgr whatever the mode
Step25BodyAlwaysEfibootmgr(c, disk) ==
    Body(<<Cmd("arch-chroot /mnt pacman -Sy efibootmgr --noconfirm", <<>>)>>
         \o Maybe(c.uefi_install,
                  <<Cmd("arch-chroot /mnt grub-install --target=x86_64-efi --bootloader-id=grub_uefi --recheck",
                        <<>>)>>)
         \o Maybe(~c.uefi_install,
                  <<Ask("Enter your disk's name the Arch Linux has been installed to.",
                        ask(disk)),
                    Cmd("arch-chroot /mnt grub-install --target=i386-pc /dev/{}", ask(disk))>>),
         c, c)

\* step 25: grub
Step25Body(c, disk) ==
    Body(Maybe(c.uefi_install,
               <<Cmd("arch-chroot /mnt pacman -Sy efibootmgr --noconfirm", <<>>),
                 Cmd("arch-chroot /mnt grub-install --target=x86_64-efi --bootloader-id=grub_uefi --recheck",
                     <<>>)>>)
         \o Maybe(~c.uefi_install,
                  <<Ask("Enter your disk's name the Arch Linux has been installed to.",
                        ask(disk)),
                    Cmd("arch-chroot /mnt grub-install --target=i386-pc /dev/{}", ask(disk))>>),
         c, c)

\* find_uuid_in_blkid_command: blkid through output()?, then the line and
\* the token are indexed
find_uuid_in_blkid_command(partition_name) ==
    <<Out("arch-chroot /mnt blkid", partition_name), Find("UUID of {}", partition_name)>>

\* step 26: grub configuration
Step26Body(c, windows) ==
    LET w == bool_ask(windows) IN
    Body(<<Ask("Are you installing Arch Linux alongside Windows?", w.answer)>>
         \o Maybe(w.value, <<Cmd("arch-chroot /mnt pacman -Sy os-prober --noconfirm", <<>>)>>)
         \o <<Io("read /mnt/etc/default/grub", <<>>), Io("write /mnt/etc/default/grub", <<>>)>>
         \o Maybe(c.encrypted_partitons,
                  find_uuid_in_blkid_command(c.root_partition)
                  \o find_uuid_in_blkid_command(<<"c", "r", "y", "p", "t", "r", "o", "o", "t">>)
                  \o <<Io("read /mnt/etc/default/grub", <<>>),
                       Io("write /mnt/etc/default/grub cryptdevice", <<>>)>>),
         c, c)

\* step 27: GPU modules, encrypt hook, mkinitcpio
Step27Body(c, nvidia, intel) ==
    LET has_nvidia_gpu == bool_ask(nvidia)
        has_intel_gpu == bool_ask(intel)
        writing_string ==
            IF has_nvidia_gpu.value
            THEN IF has_intel_gpu.value
                 THEN <<"write /mnt/etc/mkinitcpio.conf MODULES=(i915 nvidia)">>
                 ELSE <<"write /mnt/etc/mkinitcpio.conf MODULES=(nvidia)">>
            ELSE IF has_intel_gpu.value
                 THEN <<"write /mnt/etc/mkinitcpio.conf MODULES=(i915)">>
                 ELSE <<>>
    IN  Body(<<Ask("Do you have Nvidia GPU?", has_nvidia_gpu.answer),
               Ask("Do you have Intel GPU?", has_intel_gpu.answer)>>
             \o Maybe(has_nvidia_gpu.value,
                      <<Cmd("arch-chroot /mnt pacman -Sy nvidia --noconfirm", <<>>)>>)
             \o Maybe(writing_string # <<>>,
                      <<Io("read /mnt/etc/mkinitcpio.conf", <<>>),
                        Io(writing_string[1], <<>>)>>
                      \o Maybe(c.encrypted_partitons,
                               <<Io("read /mnt/etc/mkinitcpio.conf", <<>>),
                                 Io("write /mnt/etc/mkinitcpio.conf HOOKS encrypt", <<>>)>>)
                      \o <<Try("arch-chroot /mnt mkinitcpio -p linux", <<>>)>>),
             c, c)

\* step 28: grub.cfg
Step28Body(c) ==
    Body(<<Cmd("arch-chroot /mnt grub-mkconfig -o /boot/grub/grub.cfg", <<>>)>>, c, c)

\* step 29: crypttab
Step29Body(c) ==
    Body(Maybe(c.encrypted_partitons,
               Maybe(IsSome(c.swap_partition),
                     <<Io("read /mnt/etc/crypttab", <<>>), Io("write /mnt/etc/crypttab", <<>>)>>)
               \o Maybe(IsSome(c.home_partition),
                        <<Io("open /mnt/etc/crypttab for append", <<>>)>>
                        \o find_uuid_in_blkid_command(Unwrap(c.home_partition))
                        \o <<Io("append home UUID={} none to /mnt/etc/crypttab", <<>>)>>)),
         c, c)

\* step 30: NetworkManager
Step30Body(c) == Body(<<Cmd("arch-chroot /mnt systemctl enable NetworkManager", <<>>)>>, c, c)

\* step 31: desktop
Step31Body(c) == Body(<<Cmd("arch-chroot /mnt pacman -Sy sddm ... firefox", <<>>)>>, c, c)

\* step 32: SDDM
Step32Body(c) == Body(<<Cmd("arch-chroot /mnt systemctl enable sddm", <<>>)>>, c, c)

\* step 33: paru, as the user of the record
Step33Body(c) ==
    Body(<<Cmd("arch-chroot -u {} /mnt git clone https://aur.archlinux.org/paru-bin.git /home/{}/paru-bin",
               c.username),
           Io("write /mnt/home/{}/makepkg.sh", c.username),
           Cmd("arch-chroot -u {} /mnt sudo chmod +x /home/{}/makepkg.sh", c.username),
           Cmd("arch-chroot -u {} /mnt /home/{}/makepkg.sh", c.username),
           Cmd("arch-chroot /mnt rm /home/{}/makepkg.sh", c.username),
           Cmd("arch-chroot /mnt rm -r /home/{}/paru-bin", c.username)>>, c, c)

\* a step 34 that unmounts and closes the root before the other partitions
Step34BodyUnmountsRootFirst(c) ==
    Body(Maybe(c.encrypted_partitons,
               <<Cmd("umount /dev/mapper/cryptroot", <<>>),
                 Cmd("cryptsetup close /dev/mapper/cryptroot", <<>>)>>)
         \o Maybe(~c.encrypted_partitons, <<Cmd("umount /dev/{}", c.root_partition)>>)
         \o Maybe(IsSome(c.uefi_partition), <<Cmd("umount /dev/{}", Unwrap(c.uefi_partition))>>)
         \o Maybe(IsSome(c.boot_partition), <<Cmd("umount /dev/{}", Unwrap(c.boot_partition))>>)
         \o Maybe(IsSome(c.home_partition) /\ c.encrypted_partitons,
                  <<Cmd("umount /dev/mapper/crypthome", <<>>),
                    Cmd("cryptsetup close /dev/mapper/crypthome", <<>>)>>)
         \o Maybe(IsSome(c.home_partition) /\ ~c.encrypted_partitons,
                  <<Cmd("umount /dev/{}", Unwrap(c.home_partition))>>),
         c, c)

\* step 34: unmounting
Step34Body(c) ==
    Body(Maybe(IsSome(c.uefi_partition), <<Cmd("umount /dev/{}", Unwrap(c.uefi_partition))>>)
         \o Maybe(IsSome(c.boot_partition), <<Cmd("umount /dev/{}", Unwrap(c.boot_partition))>>)
         \o Maybe(IsSome(c.home_partition) /\ c.encrypted_partitons,
                  <<Cmd("umount /dev/mapper/crypthome", <<>>),
                    Cmd("cryptsetup close /dev/mapper/crypthome", <<>>)>>)
         \o Maybe(IsSome(c.home_partition) /\ ~c.encrypted_partitons,
                  <<Cmd("umount /dev/{}", Unwrap(c.home_partition))>>)
         \o Maybe(c.encrypted_partitons,
                  <<Cmd("umount /dev/mapper/cryptroot", <<>>),
                    Cmd("cryptsetup close /dev/mapper/cryptroot", <<>>)>>)
         \o Maybe(~c.encrypted_partitons, <<Cmd("umount /dev/{}", c.root_partition)>>),
         c, c)

\* ------------------------------------------------------------------ main

Init ==
    /\ pc = "start"
    /\ app_config = New(INSTALLATION_STEPS_COUNT)
    /\ answer = <<>>
    /\ file = <<>>
    /\ cmds = <<>>
    /\ lastStep = 0
    /\ good = <<>>

\* "Do you want to continue?"
Start ==
    /\ pc = "start"
    /\ \E typed \in YesNoTyped :
         LET b == bool_ask(typed) IN
         /\ pc' = IF b.value THEN "load" ELSE "quit"
         /\ answer' = b.answer
    /\ UNCHANGED <<app_config, file, cmds, lastStep, good>>

\* AppConfig::new, then load_config: Err (no file) goes on with the new
\* record, Ok leads to the question whether to resume
LoadConfig ==
    /\ pc = "load"
    /\ LET l == load_config(file, New(INSTALLATION_STEPS_COUNT)) IN
       /\ pc' = CASE l.status = "err" -> "loop"
                  [] l.status = "ok" -> "ask_resume"
                  [] OTHER -> "panicked"
       /\ app_config' = l.cfg
    /\ UNCHANGED <<answer, file, cmds, lastStep, good>>

\* "Do you want to continue installation from step (k/n)?": no resets
ResumeAnswer ==
    /\ pc = "ask_resume"
    /\ \E typed \in YesNoTyped :
         LET b == bool_ask(typed) IN
         /\ app_config' = IF b.value THEN app_config ELSE reset(app_config)
         /\ answer' = b.answer
         /\ good' = IF b.value THEN good ELSE <<>>
    /\ pc' = "loop"
    /\ UNCHANGED <<file, cmds, lastStep>>

\* a header that saves the step and none of the answers
headerSavesTheStepOnly(c) ==
    <<save_config([New(c.total_installation_steps) EXCEPT
                      !.current_installation_step = c.current_installation_step])>>

\* print_installation_status_and_save_config: the file it leaves (fs::write
\* is taken to succeed and to finish here)
print_installation_status_and_save_config(c) == <<save_config(c)>>

\* an outcome whose increment skips a step
OutcomeSkipsAStep(c, body, t) ==
    LET n == c.current_installation_step
        st == IF t # <<>> /\ t[Len(t)].k = "try" /\ t[Len(t)].r = "fail" THEN "asking"
              ELSE IF Status(t) = "ok" /\ body.then = "ask" THEN "asking"
              ELSE Status(t)
    IN  [pc |-> CASE st = "ok" -> IF n >= 33 THEN "finish" ELSE "loop"
                  [] st = "asking" -> "ask"
                  [] OTHER -> st,
         cfg |-> IF st # "ok" THEN body.mid
                 ELSE IF n >= 33 THEN body.end
                 ELSE [body.end EXCEPT !.current_installation_step = @ + 2],
         trace |-> IF st = "asking" /\ body.then # "ask" THEN t \o body.onErr ELSE t]

\* an outcome that counts a handled failure as a completed step
OutcomeCountsFailedAttempt(c, body, t) ==
    LET n == c.current_installation_step
        handled == t # <<>> /\ t[Len(t)].k = "try" /\ t[Len(t)].r = "fail"
        st == IF handled THEN "asking"
              ELSE IF Status(t) = "ok" /\ body.then = "ask" THEN "asking"
              ELSE Status(t)
    IN  [pc |-> CASE st = "ok" -> IF n = 34 THEN "finish" ELSE "loop"
                  [] st = "asking" -> "ask"
                  [] OTHER -> st,
         cfg |-> IF handled THEN [body.mid EXCEPT !.current_installation_step = @ + 1]
                 ELSE IF st # "ok" THEN body.mid
                 ELSE IF n = 34 THEN body.end
                 ELSE [body.end EXCEPT !.current_installation_step = @ + 1],
         trace |-> IF handled THEN t \o body.onErr ELSE t]

\* an outcome without the increment: a completed step is entered again
OutcomeStaysInTheStep(c, body, t) ==
    LET handled == t # <<>> /\ t[Len(t)].k = "try" /\ t[Len(t)].r = "fail"
        st == IF handled THEN "asking"
              ELSE IF Status(t) = "ok" /\ body.then = "ask" THEN "asking"
              ELSE Status(t)
    IN  [pc |-> CASE st = "ok" -> IF c.current_installation_step = 34 THEN "finish" ELSE "loop"
                  [] st = "asking" -> "ask"
                  [] OTHER -> st,
         cfg |-> IF st # "ok" THEN body.mid ELSE body.end,
         trace |-> IF handled THEN t \o body.onErr ELSE t]

\* how an execution t of a body leaves main
Outcome(c, body, t) ==
    LET n == c.current_installation_step
        handled == t # <<>> /\ t[Len(t)].k = "try" /\ t[Len(t)].r = "fail"
        st == IF handled THEN "asking"
              ELSE IF Status(t) = "ok" /\ body.then = "ask" THEN "asking"
              ELSE Status(t)
    IN  [pc |-> CASE st = "ok" -> IF n = 34 THEN "finish" ELSE "loop"
                  [] st = "asking" -> "ask"
                  [] OTHER -> st,
         cfg |-> IF st # "ok" THEN body.mid
                 ELSE IF n = 34 THEN body.end
                 ELSE [body.end EXCEPT !.current_installation_step = @ + 1],
         trace |-> IF handled THEN t \o body.onErr ELSE t]

At(p, n) == pc = p /\ app_config.current_installation_step = n

\* one arm of the match: the header, then the body, then the increment
Enter(body) ==
    \E t \in Executions(body.ops) :
        LET o == Outcome(app_config, body, t) IN
        /\ file' = print_installation_status_and_save_config(app_config)
        /\ good' = IF lastStep = 0 /\ good # <<>> THEN good
                   ELSE print_installation_status_and_save_config(app_config)
        /\ pc' = o.pc
        /\ app_config' = o.cfg
        /\ cmds' = o.trace
        /\ answer' = LastAnswer(o.trace, answer)
        /\ lastStep' = app_config.current_installation_step

Retries(t, q) == Cardinality({i \in 1..Len(t) : t[i].k = "ask" /\ t[i].c = q})

\* the operator answers the yes/no question q a step asks after a failure:
\* no prints the banner and returns Err, yes goes on with body
Reply(q, typed, body) ==
    LET b == bool_ask(typed)
        said == cmds \o <<Ask(q, b.answer)>>
    IN  /\ IF b.value
           THEN /\ Retries(cmds, q) < MaxRetries
                /\ \E t \in Executions(body.ops) :
                     LET o == Outcome(app_config, body, t) IN
                     /\ pc' = o.pc
                     /\ app_config' = o.cfg
                     /\ cmds' = said \o o.trace
                     /\ answer' = LastAnswer(o.trace, b.answer)
           ELSE /\ pc' = "aborted"
                /\ app_config' = app_config
                /\ cmds' = said \o <<Say("Installation failed.")>>
                /\ answer' = b.answer
        /\ UNCHANGED <<file, lastStep, good>>

Step1 == At("loop", 1) /\ \E typed \in ModeTyped : Enter(Step1Body(app_config, typed))

Step2 == At("loop", 2) /\ \E typed \in YesNoTyped : Enter(Step2Body(app_config, typed))

Step3 == At("loop", 3) /\ Enter(Step3Body(app_config))

Step4 == At("loop", 4) /\ \E disk \in DiskLines : Enter(Step4Body(app_config, disk))

Step5 ==
    /\ At("loop", 5)
    /\ \E root \in RootLines, hasBoot \in YesNoTyped, boot \in BootLines,
          uefi \in UefiLines, hasHome \in YesNoTyped, home \in HomeLines :
         Enter(Step5Body(app_config, root, hasBoot, boot, uefi, hasHome, home))

Step6 ==
    /\ At("loop", 6)
    /\ \E fmtRoot \in YesNoTyped, fmtBoot \in YesNoTyped,
          fmtUefi \in YesNoTyped, fmtHome \in YesNoTyped :
         Enter(Step6Body(app_config, fmtRoot, fmtBoot, fmtUefi, fmtHome))

Step7 ==
    /\ At("loop", 7)
    /\ \E hasSwap \in YesNoTyped, swap \in SwapLines :
         Enter(Step7Body(app_config, hasSwap, swap))

Step8 == At("loop", 8) /\ Enter(Step8Body(app_config))

Step9 == At("loop", 9) /\ \E country \in CountryLines : Enter(Step9Body(app_config, country))

Step10 == At("loop", 10) /\ Enter(Step10Body(app_config))

Step11 == At("loop", 11) /\ \E cpu \in CpuLines : Enter(Step11Body(app_config, cpu))

Step12 == At("loop", 12) /\ Enter(Step12Body(app_config))

Step13 == At("loop", 13) /\ Enter(Step13Body(app_config))

Step14 == At("loop", 14) /\ Enter(Step14Body(app_config))

Step15 == At("loop", 15) /\ \E zone \in ZoneLines : Enter(Step15Body(app_config, zone))

\* "Do you want to enter the time zone again?"
Retry15 ==
    /\ At("ask", 15)
    /\ \E typed \in YesNoTyped, zone \in ZoneLines :
         Reply("Do you want to enter the time zone again?", typed,
               Step15Body(app_config, zone))

Step16 == At("loop", 16) /\ Enter(Step16Body(app_config))

Step17 == At("loop", 17) /\ Enter(Step17Body(app_config))

Step18 == At("loop", 18) /\ \E host \in HostLines : Enter(Step18Body(app_config, host))

Step19 == At("loop", 19) /\ Enter(Step19Body(app_config, answer))

Step20 == At("loop", 20) /\ Enter(Step20Body(app_config))

\* "Do you want to enter the root password again?"
Retry20 ==
    /\ At("ask", 20)
    /\ \E typed \in YesNoTyped :
         Reply("Do you want to enter the root password again?", typed,
               Step20Body(app_config))

Step21 == At("loop", 21) /\ \E user \in UserLines : Enter(Step21Body(app_config, user))

\* "Do you want to enter the username again?"
Retry21 ==
    /\ At("ask", 21)
    /\ \E typed \in YesNoTyped, user \in UserLines :
         Reply("Do you want to enter the username again?", typed,
               Step21Body(app_config, user))

Step22 == At("loop", 22) /\ Enter(Step22Body(app_config, answer))

\* "Do you want to enter the user password again?"
Retry22 ==
    /\ At("ask", 22)
    /\ \E typed \in YesNoTyped :
         Reply("Do you want to enter the user password again?", typed,
               Step22Body(app_config, bool_ask(typed).answer))

Step23 == At("loop", 23) /\ Enter(Step23Body(app_config, answer))

Step24 == At("loop", 24) /\ Enter(Step24Body(app_config))

Step25 == At("loop", 25) /\ \E disk \in DiskLines : Enter(Step25Body(app_config, disk))

Step26 == At("loop", 26) /\ \E windows \in YesNoTyped : Enter(Step26Body(app_config, windows))

Step27 ==
    /\ At("loop", 27)
    /\ \E nvidia \in YesNoTyped, intel \in YesNoTyped :
         Enter(Step27Body(app_config, nvidia, intel))

\* "... do you want to continue?" after mkinitcpio failed: yes completes
\* the step
Continue27 ==
    /\ At("ask", 27)
    /\ \E typed \in YesNoTyped :
         Reply("This error occured in 'mkiniticpio -p linux' command which can be expected. Given this inforamtion, do you want to continue?",
               typed, Body(<<>>, app_config, app_config))

Step28 == At("loop", 28) /\ Enter(Step28Body(app_config))

Step29 == At("loop", 29) /\ Enter(Step29Body(app_config))

Step30 == At("loop", 30) /\ Enter(Step30Body(app_config))

Step31 == At("loop", 31) /\ Enter(Step31Body(app_config))

Step32 == At("loop", 32) /\ Enter(Step32Body(app_config))

Step33 == At("loop", 33) /\ Enter(Step33Body(app_config))

Step34 == At("loop", 34) /\ Enter(Step34Body(app_config))

\* a remove_config that leaves the file in place
remove_configKeepsFile(f) == f

\* AppConfig::remove_config, when remove_file succeeds: no file
remove_config(f) == <<>>

\* after the loop: remove_config, the countdown, reboot
Finish ==
    /\ pc = "finish"
    /\ \E t \in Executions(<<Io("remove_file ./arch_linux_installer.conf", <<>>),
                             Cmd("reboot", <<>>)>>) :
         /\ cmds' = t
         /\ file' = IF t[1].r = "ok" THEN remove_config(file) ELSE file
         /\ pc' = IF t[1].r # "ok" THEN "panicked"
                  ELSE IF Status(t) = "ok" THEN "done"
                  ELSE "reboot_failed"
    /\ UNCHANGED <<app_config, answer, lastStep, good>>

\* the process is gone (it ended, or was killed wherever it was) and the
\* program is started again; only the file survives
Restart ==
    /\ pc # "start"
    /\ IF file = <<>> THEN TRUE
       ELSE {i \in 1..(Len(file[1]) - MaxLine) :
                  NL \notin {file[1][j] : j \in i..(i + MaxLine)}} = {}
    /\ pc' = "start"
    /\ app_config' = New(INSTALLATION_STEPS_COUNT)
    /\ answer' = <<>>
    /\ cmds' = <<>>
    /\ lastStep' = 0
    /\ good' = file
    /\ UNCHANGED file

Next ==
    \/ Start \/ LoadConfig \/ ResumeAnswer
    \/ Step1 \/ Step2 \/ Step3 \/ Step4 \/ Step5 \/ Step6 \/ Step7 \/ Step8
    \/ Step9 \/ Step10 \/ Step11 \/ Step12 \/ Step13 \/ Step14 \/ Step15
    \/ Step16 \/ Step17 \/ Step18 \/ Step19 \/ Step20 \/ Step21 \/ Step22
    \/ Step23 \/ Step24 \/ Step25 \/ Step26 \/ Step27 \/ Step28 \/ Step29
    \/ Step30 \/ Step31 \/ Step32 \/ Step33 \/ Step34
    \/ Retry15 \/ Retry20 \/ Retry21 \/ Retry22 \/ Continue27
    \/ Finish \/ Restart

Spec == Init /\ [][Next]_vars

\* ------------------------------------------------ save_config, interrupted
\* fs::write creates (truncates) the file and then writes the text, in as
\* many pieces as the writes take; the process can stop before any of them.

\* the record in memory when a step is entered: early in a run, and late
SaveConfigs ==
    { [New(INSTALLATION_STEPS_COUNT) EXCEPT !.current_installation_step = 2],
      [New(INSTALLATION_STEPS_COUNT) EXCEPT
          !.uefi_install = TRUE,
          !.uefi_partition = Some(<<"e">>),
          !.root_partition = <<"a">>,
          !.current_installation_step = 30] }

\* the record a step is entered with, about to be saved over the one the
\* step before left
InitSave ==
    /\ pc = "save"
    /\ app_config \in SaveConfigs
    /\ answer = <<>>
    /\ file = print_installation_status_and_save_config(
                  [app_config EXCEPT !.current_installation_step = @ - 1])
    /\ cmds = <<Io("write ./arch_linux_installer.conf", save_config(app_config))>>
    /\ lastStep = app_config.current_installation_step - 1
    /\ good = file

\* fs::write opens the file, which truncates it
Create ==
    /\ pc = "save"
    /\ pc' = "write"
    /\ file' = << <<>> >>
    /\ UNCHANGED <<app_config, answer, cmds, lastStep, good>>

\* write_all: one more piece of the text reaches the file
Write ==
    /\ pc = "write"
    /\ \E n \in (Len(file[1]) + 1)..Len(cmds[1].a) :
         /\ file' = <<SubSeq(cmds[1].a, 1, n)>>
         /\ pc' = IF n = Len(cmds[1].a) THEN "saved" ELSE "write"
    /\ UNCHANGED <<app_config, answer, cmds, lastStep, good>>

\* the process stops during save_config and the program is started again
Stop ==
    /\ pc \in {"save", "write"}
    /\ pc' = "start"
    /\ app_config' = New(INSTALLATION_STEPS_COUNT)
    /\ answer' = <<>>
    /\ lastStep' = 0
    /\ UNCHANGED <<file, cmds, good>>

NextSave == Create \/ Write \/ Stop \/ Start \/ LoadConfig

SpecSave == InitSave /\ [][NextSave]_vars

\* ------------------------------------------------- load_config, any record

\* a record as save_config writes it
BaseConfig ==
    [New(INSTALLATION_STEPS_COUNT) EXCEPT
        !.uefi_install = TRUE,
        !.uefi_partition = Some(<<"e">>),
        !.root_partition = <<"a">>,
        !.current_installation_step = 8]

\* texts found in place of a line of the record
Garbage == { <<>>, <<"y", "e", "s">>, <<"S", "o", "m", "e", "(", "x", ")">> }

\* the files found: the record, the record with one line replaced, with one
\* line more, with the last line missing
Records ==
    LET base == ConfigLines(BaseConfig) IN
    {Join(ls, NL) : ls \in
        {base}
        \cup {[base EXCEPT ![i] = g] : i \in 1..Len(base), g \in Garbage}
        \cup {base \o <<g>> : g \in Garbage}
        \cup {SubSeq(base, 1, Len(base) - 1)}}

InitLoad ==
    /\ pc = "start"
    /\ app_config = New(INSTALLATION_STEPS_COUNT)
    /\ answer = <<>>
    /\ file \in {<<r>> : r \in Records}
    /\ cmds = <<>>
    /\ lastStep = 0
    /\ good = file

NextLoad == Start \/ LoadConfig \/ ResumeAnswer

SpecLoad == InitLoad /\ [][NextLoad]_vars

\* --------------------------------------------------------------- properties

\* what a load_config of the file f gives to a newly started program
Loaded(f) == load_config(f, New(INSTALLATION_STEPS_COUNT))

\* the step the record f names
PersistedStep(f) == Loaded(f).cfg.current_installation_step

Yes == {<<"y">>, <<"Y">>}
No == {<<"n">>, <<"N">>}

\* main is past the loop, in the completion block
Removing == cmds # <<>> /\ cmds[1].c = "remove_file ./arch_linux_installer.conf"

\* main ended inside the body of step lastStep: it returned Err or panicked
StoppedInStep == pc \in {"aborted", "panicked"} /\ lastStep >= 1 /\ ~Removing

\* C1: when step k ends the run (a command fails, the operator declines, a
\* file operation fails), the file is the record as the last completed step
\* left it: it names step k, which is also the step in memory, and it is
\* text for text the record that was there when that step had completed.
C1_AbortLeavesRecordOfLastCompletedStep ==
    StoppedInStep =>
        /\ file = good
        /\ PersistedStep(file) = lastStep
        /\ app_config.current_installation_step = lastStep

\* C2: a run that loads a record naming step k and is told to resume is at
\* step k when it enters the loop; the first body run is the one of the step
\* in memory, every later body is the one of the next step, the step in
\* memory only ever grows by one and only when a body has completed, and the
\* completion block is reached from step 34 alone.
C2_ResumeRunsStepsInOrder ==
    /\ [](pc = "loop" /\ lastStep = 0 /\ file # <<>> /\ answer \in Yes
            => /\ app_config.current_installation_step = PersistedStep(file)
               /\ app_config = Loaded(file).cfg)
    /\ [](pc = "finish" => lastStep = INSTALLATION_STEPS_COUNT)
    /\ [][pc' # "start" =>
            /\ lastStep' # lastStep =>
                 /\ lastStep' = app_config.current_installation_step
                 /\ lastStep # 0 => lastStep' = lastStep + 1
            /\ (pc \in {"loop", "ask"}
                /\ app_config'.current_installation_step
                     # app_config.current_installation_step) =>
                 /\ app_config'.current_installation_step
                      = app_config.current_installation_step + 1
                 /\ app_config'.current_installation_step = lastStep' + 1
                 /\ pc' = "loop"]_vars

\* a resumed run (the boot name is a backslash only when it was loaded from
\* a record) in which step 7 has run and completed
C2_Witness ==
    /\ pc = "loop"
    /\ lastStep = 7
    /\ app_config.current_installation_step = 8
    /\ app_config.boot_partition = Some(<<BACKSLASH>>)

\* C3 as stated: whenever a record exists once a step has been entered, the
\* step it names has not completed in this run: it is beyond the steps whose
\* bodies have completed.
C3_PersistedStepHasNotCompleted ==
    (file # <<>> /\ lastStep >= 1) =>
        PersistedStep(file) > (IF pc \in {"loop", "finish"} THEN lastStep ELSE lastStep - 1)

\* C3: once a step has been entered, the record names the step entered last
\* (under way, failed, or completed with its successor not entered yet); the
\* step in memory is that step, or the next one when it has completed and
\* the loop goes on; neither the step in memory nor the step of the record
\* (which is lastStep, by the first conjunct) ever decreases in the loop.
C3_PersistedStepIsTheStepEntered ==
    /\ []((file # <<>> /\ lastStep >= 1) =>
            /\ PersistedStep(file) = lastStep
            /\ app_config.current_installation_step
                 = (IF pc = "loop" THEN lastStep + 1 ELSE lastStep))
    /\ [][(pc \in {"loop", "ask", "finish"} /\ pc' # "start") =>
            /\ app_config'.current_installation_step
                 >= app_config.current_installation_step
            /\ (lastStep >= 1 /\ file # <<>> /\ file' # <<>>) => lastStep' >= lastStep]_vars

\* step 34 has completed and the record, not removed yet, still names it
C3_Witness ==
    /\ pc = "finish"
    /\ file # <<>>
    /\ PersistedStep(file) = INSTALLATION_STEPS_COUNT
    /\ lastStep = INSTALLATION_STEPS_COUNT

\* C4: after steps 1..k have completed, saving the record in memory and
\* loading it again succeeds and gives step k+1 and every field as saved.
C4_SaveThenLoadIsIdentity ==
    (pc = "loop" /\ lastStep >= 1) =>
        /\ app_config.current_installation_step = lastStep + 1
        /\ Loaded(<<save_config(app_config)>>) = [status |-> "ok", cfg |-> app_config]

\* C5: when a record was found and the operator declined to resume, the loop
\* is entered with the record of a fresh run (every answer at its default,
\* step 1, the total of the loaded record); and whatever was found, the
\* record persisted when step 1 runs is the one a fresh run persists.
C5_DeclineIsAFreshRun ==
    /\ (pc = "loop" /\ lastStep = 0 /\ file # <<>> /\ answer \in No) =>
          /\ app_config = New(Loaded(file).cfg.total_installation_steps)
          /\ app_config = New(INSTALLATION_STEPS_COUNT)
    /\ lastStep = 1 => file = <<save_config(New(INSTALLATION_STEPS_COUNT))>>

\* a record naming step 8, with a root name, was found and declined
C5_Witness ==
    /\ pc = "loop"
    /\ lastStep = 0
    /\ answer \in No
    /\ file # <<>>
    /\ PersistedStep(file) = 8
    /\ Loaded(file).cfg.root_partition # <<>>
    /\ app_config.current_installation_step = 1

C9_FirstNonZeroExitAborts ==
    (lastStep \notin {0, 15, 20, 21, 22, 27} /\ ~Removing) =>
        \A i \in 1..Len(cmds) :
            cmds[i].r \in {"fail", "nonzero"} => (i = Len(cmds) /\ pc = "aborted")

\* C10: in steps 20, 21 and 22 every failure of the command (a non-zero
\* exit, or no exit status at all) is followed by the error report and by
\* the yes/no question of the step.
C10_EveryFailureAsksToRetry ==
    (lastStep \in {20, 21, 22}) =>
        \A i \in 1..Len(cmds) :
            (cmds[i].k = "try" /\ cmds[i].r # "ok") =>
                /\ i < Len(cmds)
                /\ cmds[i + 1] = Say("Error")
                /\ IF i + 1 = Len(cmds) THEN pc = "ask"
                   ELSE cmds[i + 2].k = "ask"

\* C7: when the process stops during save_config, what the next start loads
\* is the whole record that was there before, or the whole record being
\* saved: load_config neither fails nor gives anything else.
C7_InterruptedSaveLoadsOldOrNew ==
    pc \in {"loop", "ask_resume", "panicked"} =>
        [status |-> CASE pc = "loop" -> "err"
                      [] pc = "ask_resume" -> "ok"
                      [] OTHER -> "panic",
         cfg |-> app_config] \in {Loaded(good), Loaded(<<cmds[1].a>>)}

\* the lines of a record as the specification describes them
IsBoolLine(l) == l \in {FormatBool(TRUE), FormatBool(FALSE)}

IsOptionLine(l) ==
    \/ l = FormatOption(None)
    \/ /\ Len(l) >= 8
       /\ SubSeq(l, 1, 6) = <<"S", "o", "m", "e", "(", QUOTE>>
       /\ SubSeq(l, Len(l) - 1, Len(l)) = <<QUOTE, ")">>

IsNumberLine(l) == ParseU8(l) # -1

WellFormedRecord(text) ==
    LET ls == Split(text, NL) IN
    /\ Len(ls) = 10
    /\ IsBoolLine(ls[1]) /\ IsBoolLine(ls[7])
    /\ IsOptionLine(ls[2]) /\ IsOptionLine(ls[3]) /\ IsOptionLine(ls[5]) /\ IsOptionLine(ls[8])
    /\ IsNumberLine(ls[9]) /\ IsNumberLine(ls[10])

\* C8: a file that is there but has not ten lines, or has a line that is
\* not of its kind, ends the start with an error: the program neither asks
\* whether to resume from it nor enters the loop.
C8_CorruptRecordIsAHardError ==
    (file # <<>> /\ ~WellFormedRecord(file[1])) => pc \notin {"ask_resume", "loop"}

\* the answer given to the question q in the step body under way
Asked(q) == \E i \in 1..Len(cmds) : cmds[i].k = "ask" /\ cmds[i].c = q

AnswerTo(q) == cmds[CHOOSE i \in 1..Len(cmds) : cmds[i].k = "ask" /\ cmds[i].c = q].a

\* the commands and file operations of the step body under way
Done(c) == \E i \in 1..Len(cmds) : cmds[i].k # "ask" /\ cmds[i].c = c

\* C11: in step 15 a non-zero exit of the command does not end the run:
\* the operator is asked whether to try again.
C11_TimeZoneCommandFailureAsksToRetry ==
    (lastStep = 15 /\ cmds # <<>> /\ cmds[Len(cmds)].r = "fail") => pc = "ask"

\* C13: every run that a step ended by returning Err (a command exited
\* non-zero, the operator declined, a file operation failed) has shown the
\* "Installation failed." banner as the last thing before it ended.
C13_EveryAbortShowsTheBanner ==
    (pc = "aborted" /\ lastStep >= 1 /\ ~Removing) =>
        cmds[Len(cmds)] = Say("Installation failed.")

\* C18: when step 27 has completed, the MODULES line written is the one of
\* the two answers: none for no/no, (nvidia) for Nvidia only, (i915) for
\* Intel only, both modules with nvidia first for yes/yes.
C18_GpuAnswersGiveTheModuleList ==
    (pc = "loop" /\ lastStep = 27) =>
        LET nvidia == AnswerTo("Do you have Nvidia GPU?") \in Yes
            intel == AnswerTo("Do you have Intel GPU?") \in Yes
            written == {w \in {"write /mnt/etc/mkinitcpio.conf MODULES=(nvidia)",
                               "write /mnt/etc/mkinitcpio.conf MODULES=(i915)",
                               "write /mnt/etc/mkinitcpio.conf MODULES=(i915 nvidia)",
                               "write /mnt/etc/mkinitcpio.conf MODULES=(nvidia i915)"} :
                          Done(w)}
        IN  written = IF nvidia /\ intel
                      THEN {"write /mnt/etc/mkinitcpio.conf MODULES=(nvidia i915)"}
                      ELSE IF nvidia THEN {"write /mnt/etc/mkinitcpio.conf MODULES=(nvidia)"}
                      ELSE IF intel THEN {"write /mnt/etc/mkinitcpio.conf MODULES=(i915)"}
                      ELSE {}

\* C20: past step 5 the root partition name, in memory and in the record,
\* is not empty.
C20_RootNameIsNotEmpty ==
    /\ app_config.current_installation_step > 5 => app_config.root_partition # <<>>
    /\ (file # <<>> /\ PersistedStep(file) > 5) => Loaded(file).cfg.root_partition # <<>>

\* the state in which step 20 leaves c when passwd succeeds at the first attempt
FirstAttempt20(c) ==
    Outcome(c, Step20Body(c), <<Try("arch-chroot /mnt passwd", <<>>)>>).cfg

\* C12: a retried failure of the root-password command leaves no trace.
\* While the operator is asked whether to enter the password again, the
\* state is the one the header of step 20 saved; an answer keeps it, and the
\* attempt that succeeds, after any number of failures, leaves the state a
\* first-attempt success leaves, at step 21; every record written is the text
\* of the state at that moment, so all later records are those of a run
\* without the failure.
C12_RetriedFailureLeavesNoTrace ==
    /\ []((pc = "ask" /\ lastStep = 20) =>
            /\ app_config.current_installation_step = 20
            /\ file = <<save_config(app_config)>>)
    /\ []((pc = "loop" /\ lastStep = 20) =>
            /\ app_config.current_installation_step = 21
            /\ file = <<save_config([app_config EXCEPT !.current_installation_step = 20])>>)
    /\ [][(pc = "ask" /\ lastStep = 20 /\ lastStep' = 20) =>
            \/ pc' # "loop" /\ app_config' = app_config
            \/ pc' = "loop" /\ app_config' = FirstAttempt20(app_config)]_vars
    /\ [][(file' # file /\ file' # <<>>) => file' = <<save_config(app_config)>>]_vars

\* passwd has failed twice, the operator has said yes twice, the third
\* attempt has succeeded and the run is about to enter step 21
C12_Witness ==
    /\ pc = "loop"
    /\ lastStep = 20
    /\ Retries(cmds, "Do you want to enter the root password again?") >= 2
    /\ cmds[Len(cmds)] = Try("arch-chroot /mnt passwd", <<>>)

\* the names an Option<String> holds: none or one
Names(o) == {o[i] : i \in 1..Len(o)}

\* the questions, commands and file operations that exist for the uefi
\* partition only
UefiActions ==
    {"Enter the name of your uefi partition: ",
     "Do you want to format your uefi partition?",
     "mkfs.fat -F32 /dev/{}",
     "mkdir -p /mnt/boot/EFI",
     "mount /dev/{} /mnt/boot/EFI",
     "arch-chroot /mnt pacman -Sy efibootmgr --noconfirm",
     "arch-chroot /mnt grub-install --target=x86_64-efi --bootloader-id=grub_uefi --recheck"}

\* C14: in a BIOS run, fresh or resumed, no step asks or runs anything for
\* the uefi partition, and every umount of step 34 is that of another
\* partition; in a UEFI run step 5 asks for the uefi partition, step 25
\* installs efibootmgr before anything else, and step 8 mounts the EFI
\* partition unless an earlier command of the step has ended the run.
C14_UefiActionsFollowTheMode ==
    lastStep >= 2 =>
        /\ ~app_config.uefi_install =>
             /\ \A i \in 1..Len(cmds) : cmds[i].c \notin UefiActions
             /\ \A i \in 1..Len(cmds) :
                  cmds[i].c = "umount /dev/{}" =>
                      cmds[i].a \in {app_config.root_partition}
                                    \cup Names(app_config.boot_partition)
                                    \cup Names(app_config.home_partition)
        /\ app_config.uefi_install =>
             /\ lastStep = 5 => Asked("Enter the name of your uefi partition: ")
             /\ lastStep = 8 =>
                  \/ Done("mount /dev/{} /mnt/boot/EFI")
                  \/ pc \in {"aborted", "panicked"}
             /\ lastStep = 25 =>
                  cmds[1].c = "arch-chroot /mnt pacman -Sy efibootmgr --noconfirm"

\* a BIOS run has completed step 34 with a boot partition to unmount
C14_Witness ==
    /\ ~app_config.uefi_install
    /\ lastStep = 34
    /\ pc = "finish"
    /\ IsSome(app_config.boot_partition)
    /\ Done("umount /dev/{}")

\* C15 (as stated): once the mode has been chosen, at every step index, the
\* uefi partition is set exactly when the mode is UEFI, in memory and in the
\* record.
C15_UefiPartitionSetIffUefi ==
    /\ app_config.current_installation_step >= 2 =>
         (IsSome(app_config.uefi_partition) <=> app_config.uefi_install)
    /\ (file # <<>> /\ PersistedStep(file) >= 2) =>
         (IsSome(Loaded(file).cfg.uefi_partition) <=> Loaded(file).cfg.uefi_install)

\* C15 (amended): a uefi partition is never set outside UEFI mode, and
\* past the partition-naming step (5) it is set exactly when the mode is
\* UEFI, in memory and in the record.
C15_UefiPartitionFollowsModePastStep5 ==
    /\ IsSome(app_config.uefi_partition) => app_config.uefi_install
    /\ app_config.current_installation_step > 5 =>
         (IsSome(app_config.uefi_partition) <=> app_config.uefi_install)
    /\ file # <<>> =>
         LET p == Loaded(file).cfg IN
         /\ IsSome(p.uefi_partition) => p.uefi_install
         /\ p.current_installation_step > 5 => (IsSome(p.uefi_partition) <=> p.uefi_install)

\* a record of a UEFI run written past step 5: it holds the uefi partition
C15_Witness ==
    /\ file # <<>>
    /\ PersistedStep(file) > 5
    /\ Loaded(file).cfg.uefi_install
    /\ Loaded(file).cfg.uefi_partition = Some(<<"e">>)
    /\ app_config.uefi_partition = Some(<<"e">>)

\* the commands and file operations that exist for encrypted volumes only
EncryptedActions ==
    {"cryptsetup luksFormat /dev/{}",
     "cryptsetup open /dev/{} cryptroot",
     "cryptsetup open /dev/{} crypthome",
     "mkfs.btrfs -f /dev/mapper/cryptroot",
     "mkfs.btrfs -f /dev/mapper/crypthome",
     "mount /dev/mapper/cryptroot /mnt",
     "mount /dev/mapper/crypthome /mnt/home",
     "swapoff /dev/{}",
     "mkfs.ext2 -L cryptswap /dev/{} 1M",
     "read /mnt/etc/fstab and find the swap line",
     "arch-chroot /mnt blkid",
     "write /mnt/etc/default/grub cryptdevice",
     "write /mnt/etc/mkinitcpio.conf HOOKS encrypt",
     "read /mnt/etc/crypttab",
     "write /mnt/etc/crypttab",
     "open /mnt/etc/crypttab for append",
     "append home UUID={} none to /mnt/etc/crypttab",
     "umount /dev/mapper/crypthome",
     "cryptsetup close /dev/mapper/crypthome",
     "umount /dev/mapper/cryptroot",
     "cryptsetup close /dev/mapper/cryptroot"}

\* C16: every encrypted-volume action is carried out in a state where
\* encrypted_partitons is true; the answer of step 2 stays what it was for
\* the rest of the run and is the one every record of the run holds, so a
\* run whose operator said no, resumed or not, carries out none.
C16_EncryptedActionsOnlyWhenEncrypted ==
    /\ [](\A i \in 1..Len(cmds) :
            cmds[i].c \in EncryptedActions => app_config.encrypted_partitons)
    /\ [][(app_config.current_installation_step >= 3
           /\ app_config'.current_installation_step >= 3) =>
            app_config'.encrypted_partitons = app_config.encrypted_partitons]_vars
    /\ []((lastStep >= 3 /\ file # <<>>) =>
            Loaded(file).cfg.encrypted_partitons = app_config.encrypted_partitons)

\* an encrypted run with a swap partition has converted it in step 13
C16_Witness ==
    /\ app_config.encrypted_partitons
    /\ lastStep = 13
    /\ pc = "loop"
    /\ Done("mkfs.ext2 -L cryptswap /dev/{} 1M")
    /\ Done("write /mnt/etc/fstab")

\* the questions, commands and file operations of steps 6, 8, 13, 29 and 34
\* that exist for one optional partition only
RoleActions ==
    [boot_partition |->
        {"Do you want to format your boot partition?",
         "mkdir -p /mnt/boot",
         "mount /dev/{} /mnt/boot"},
     home_partition |->
        {"Do you want to format your home partition?",
         "cryptsetup open /dev/{} crypthome",
         "mkfs.btrfs -f /dev/mapper/crypthome",
         "mkdir -p /mnt/home",
         "mount /dev/mapper/crypthome /mnt/home",
         "mount /dev/{} /mnt/home",
         "open /mnt/etc/crypttab for append",
         "append home UUID={} none to /mnt/etc/crypttab",
         "umount /dev/mapper/crypthome",
         "cryptsetup close /dev/mapper/crypthome"},
     swap_partition |->
        {"swapoff /dev/{}",
         "mkfs.ext2 -L cryptswap /dev/{} 1M",
         "read /mnt/etc/fstab and find the swap line",
         "read /mnt/etc/crypttab",
         "write /mnt/etc/crypttab"}]

\* the commands that take the partition they act on as their argument
PartitionActions ==
    {"cryptsetup luksFormat /dev/{}", "mkfs.btrfs -f /dev/{}", "mkfs.fat -F32 /dev/{}",
     "mount /dev/{} /mnt/boot", "mount /dev/{} /mnt/boot/EFI", "mount /dev/{} /mnt/home",
     "swapoff /dev/{}", "mkfs.ext2 -L cryptswap /dev/{} 1M", "umount /dev/{}"}

\* C17: an action of steps 6, 8, 13, 29 and 34 that exists for the boot,
\* home or swap partition is carried out only in a state that records that
\* partition, and a format, mount, conversion or unmount names a partition
\* the state records.
C17_OptionalPartitionActionsOnlyWhenRecorded ==
    lastStep \in {6, 8, 13, 29, 34} =>
        \A i \in 1..Len(cmds) :
            /\ \A role \in DOMAIN RoleActions :
                 cmds[i].c \in RoleActions[role] => IsSome(app_config[role])
            /\ cmds[i].c \in PartitionActions =>
                 cmds[i].a \in {app_config.root_partition}
                               \cup Names(app_config.uefi_partition)
                               \cup Names(app_config.boot_partition)
                               \cup Names(app_config.home_partition)
                               \cup Names(app_config.swap_partition)

\* step 8 of a run with a home partition and no boot partition has made and
\* mounted /mnt/home and has left /mnt/boot alone
C17_Witness ==
    /\ lastStep = 8
    /\ pc = "loop"
    /\ IsSome(app_config.home_partition)
    /\ ~IsSome(app_config.boot_partition)
    /\ Done("mkdir -p /mnt/home")
    /\ ~Done("mkdir -p /mnt/boot")

\* ------------------------------------------------- a BIOS run, root only

\* what the operator answers and what the commands do in the scenario: BIOS,
\* no encryption, root partition sda1, no boot, home or swap partition; every
\* command and file operation succeeds; the operator never gives up, and
\* enters a well-formed time zone at the latest at the last retry
ScenarioHolds ==
    /\ \A i \in 1..Len(cmds) : cmds[i].r = "ok"
    /\ \A i \in 1..Len(cmds) : cmds[i] # Say("Installation failed.")
    /\ Asked("Which installation mode do you want?") =>
         AnswerTo("Which installation mode do you want?") = <<"1">>
    /\ \A q \in {"Do you want to encrypt your root and home partitions?",
                 "Do you have a separate boot partition?",
                 "Do you have a separate home partition?",
                 "Do you want to enable swap?"} :
         Asked(q) => AnswerTo(q) \in No
    /\ Asked("Enter the name of your root partition: ") =>
         AnswerTo("Enter the name of your root partition: ") = <<"s", "d", "a", "1">>
    /\ pc = "ask" =>
         Retries(cmds, "Do you want to enter the time zone again?") < MaxRetries
    /\ pc # "quit"

\* the steps of main that the scenario lets happen
NextScenario ==
    /\ \/ Start \/ LoadConfig
       \/ Step1 \/ Step2 \/ Step3 \/ Step4 \/ Step5 \/ Step6 \/ Step7 \/ Step8
       \/ Step9 \/ Step10 \/ Step11 \/ Step12 \/ Step13 \/ Step14 \/ Step15
       \/ Step16 \/ Step17 \/ Step18 \/ Step19 \/ Step20 \/ Step21 \/ Step22
       \/ Step23 \/ Step24 \/ Step25 \/ Step26 \/ Step27 \/ Step28 \/ Step29
       \/ Step30 \/ Step31 \/ Step32 \/ Step33 \/ Step34
       \/ Retry15 \/ Finish
    /\ ScenarioHolds'

\* the program is not held up: whatever it can do next, it does
SpecScenario == Init /\ [][NextScenario]_vars /\ WF_vars(NextScenario)

\* C19: in the scenario (BIOS, no encryption, root sda1, no boot, home or
\* swap partition, every command succeeding) nothing is asked or run for a
\* uefi, boot, home, swap or encrypted volume and every partition command
\* names sda1; the run reaches step 34 and then ends; at step 34 the state
\* is BIOS, unencrypted, root sda1, no other partition; the username is the
\* name entered in step 21 and stays that name.
C19_BiosRootOnlyRunReachesTheEnd ==
    /\ [](\A i \in 1..Len(cmds) :
            /\ cmds[i].c \notin
                 UefiActions \cup EncryptedActions \cup RoleActions.boot_partition
                 \cup RoleActions.home_partition \cup RoleActions.swap_partition
                 \cup {"Enter the name of your boot partition: ",
                       "Enter the name of your home partition: ",
                       "Enter name of the swap partition: ",
                       "mkswap /dev/{}", "swapon /dev/{}"}
            /\ cmds[i].c \in PartitionActions => cmds[i].a = <<"s", "d", "a", "1">>)
    /\ [](pc \notin {"aborted", "panicked", "reboot_failed"})
    /\ <>(lastStep = 34 /\ pc = "finish")
    /\ <>(pc = "done")
    /\ [](lastStep = 34 =>
            /\ ~app_config.uefi_install
            /\ ~app_config.encrypted_partitons
            /\ app_config.root_partition = <<"s", "d", "a", "1">>
            /\ app_config.uefi_partition = None
            /\ app_config.boot_partition = None
            /\ app_config.home_partition = None
            /\ app_config.swap_partition = None)
    /\ []((lastStep = 21 /\ pc = "loop") =>
            app_config.username = AnswerTo("Enter your username: "))
    /\ [][lastStep' > 21 => app_config'.username = app_config.username]_vars

\* the scenario's run has unmounted sda1, removed the record and rebooted,
\* with the user u of step 21 in its state
C19_Witness ==
    /\ pc = "done"
    /\ lastStep = 34
    /\ file = <<>>
    /\ app_config.root_partition = <<"s", "d", "a", "1">>
    /\ app_config.boot_partition = None
    /\ app_config.username = <<"u">>

\* C21: past step 21 the username, in memory and in the record, is not
\* empty.
C21_UsernameIsNotEmpty ==
    /\ app_config.current_installation_step > 21 => app_config.username # <<>>
    /\ (file # <<>> /\ PersistedStep(file) > 21) => Loaded(file).cfg.username # <<>>

\* ------------------------------------------ text functions on their own

\* the replacement lists of the steps that patch a file, by file: pacman.conf
\* (steps 10 and 14), locale.gen (17), sudoers (24), grub (26, no Windows),
\* mkinitcpio.conf (27, both GPUs), crypttab (29)
Replacements ==
    <<<<[from |-> <<"#", "C", "o", "l", "o", "r">>,
           to |-> <<"C", "o", "l", "o", "r">>],
         [from |-> <<"#", "V", "e", "r", "b", "o", "s", "e", "P", "k", "g", "L", "i",
                    "s", "t", "s">>,
           to |-> <<"V", "e", "r", "b", "o", "s", "e", "P", "k", "g", "L", "i", "s", "t",
                  "s">>],
         [from |-> <<"#", "P", "a", "r", "a", "l", "l", "e", "l", "D", "o", "w", "n",
                    "l", "o", "a", "d", "s", " ", "=", " ", "5">>,
           to |-> <<"P", "a", "r", "a", "l", "l", "e", "l", "D", "o", "w", "n", "l", "o",
                  "a", "d", "s", " ", "=", " ", "5", NL, "I", "L", "o", "v", "e", "C",
                  "a", "n", "d", "y">>]>>,
       <<[from |-> <<"#", "e", "n", "_", "U", "S", ".", "U", "T", "F", "-", "8", " ",
                    "U", "T", "F", "-", "8">>,
           to |-> <<"e", "n", "_", "U", "S", ".", "U", "T", "F", "-", "8", " ", "U", "T",
                  "F", "-", "8">>]>>,
       <<[from |-> <<"#", " ", "%", "w", "h", "e", "e", "l", " ", "A", "L", "L", "=",
                    "(", "A", "L", "L", ":", "A", "L", "L", ")", " ", "A", "L", "L">>,
           to |-> <<"%", "w", "h", "e", "e", "l", " ", "A", "L", "L", "=", "(", "A", "L",
                  "L", ":", "A", "L", "L", ")", " ", "A", "L", "L">>]>>,
       <<[from |-> <<"G", "R", "U", "B", "_", "C", "M", "D", "L", "I", "N", "E", "_",
                    "L", "I", "N", "U", "X", "_", "D", "E", "F", "A", "U", "L", "T", "=",
                    QUOTE, "l", "o", "g", "l", "e", "v", "e", "l", "=", "3", " ", "q",
                    "u", "i", "e", "t", QUOTE>>,
           to |-> <<"G", "R", "U", "B", "_", "C", "M", "D", "L", "I", "N", "E", "_", "L",
                  "I", "N", "U", "X", "_", "D", "E", "F", "A", "U", "L", "T", "=", QUOTE,
                  "l", "o", "g", "l", "e", "v", "e", "l", "=", "3", QUOTE>>],
         [from |-> <<"G", "R", "U", "B", "_", "T", "I", "M", "E", "O", "U", "T", "=",
                    "5">>,
           to |-> <<"G", "R", "U", "B", "_", "T", "I", "M", "E", "O", "U", "T", "=",
                  "0">>]>>,
       <<[from |-> <<"M", "O", "D", "U", "L", "E", "S", "=", "(", ")">>,
           to |-> <<"M", "O", "D", "U", "L", "E", "S", "=", "(", "i", "9", "1", "5", " ",
                  "n", "v", "i", "d", "i", "a", ")">>]>>,
       <<[from |-> <<"#", " ", "s", "w", "a", "p">>,
           to |-> <<"s", "w", "a", "p">>],
         [from |-> <<"/", "d", "e", "v", "/", "s", "d", "x", "4">>,
           to |-> <<"L", "A", "B", "E", "L", "=", "c", "r", "y", "p", "t", "s", "w", "a",
                  "p">>],
         [from |-> <<"s", "i", "z", "e", "=", "2", "5", "6">>,
           to |-> <<"s", "i", "z", "e", "=", "2", "5", "6", ",", "o", "f", "f", "s", "e",
                  "t", "=", "2", "0", "4", "8">>]>>>>

\* str::replace(from, to) for each pair of the list in turn: every match of
\* from, left to right and not overlapping, becomes to
RECURSIVE replace(_, _)
replace(s, list) ==
    LET RECURSIVE one(_, _)
        one(t, p) ==
            IF Len(t) < Len(p.from) THEN t
            ELSE IF SubSeq(t, 1, Len(p.from)) = p.from
                 THEN p.to \o one(SubSeq(t, Len(p.from) + 1, Len(t)), p)
                 ELSE <<Head(t)>> \o one(Tail(t), p)
    IN  IF list = <<>> THEN s ELSE replace(one(s, Head(list)), Tail(list))

\* find_uuid_in_blkid_command on the text blkid printed: the first line that
\* contains the name, its second whitespace-separated token, what follows the
\* first "=" of that token, without its first and last character.  Indexing
\* past the end and String::remove on an empty string panic.
partition_uuid(output, partition_name) ==
    LET pieces == Split(output, NL)
        output_lines == IF pieces[Len(pieces)] = <<>>
                        THEN SubSeq(pieces, 1, Len(pieces) - 1) ELSE pieces
        contains(l) == \E i \in 0..(Len(l) - Len(partition_name)) :
                          SubSeq(l, i + 1, i + Len(partition_name)) = partition_name
        found == SelectSeq(output_lines, contains)
        spaced(l) == [i \in 1..Len(l) |-> IF IsSpace(l[i]) THEN " " ELSE l[i]]
        nonempty(t) == t # <<>>
        line_segments == SelectSeq(Split(spaced(found[1]), " "), nonempty)
        parts == Split(line_segments[2], "=")
        panic == [status |-> "panic", uuid |-> <<>>]
    IN  IF found = <<>> THEN panic
        ELSE IF Len(line_segments) < 2 THEN panic
        ELSE IF Len(parts) < 2 THEN panic
        ELSE IF parts[2] = <<>> THEN panic
        ELSE [status |-> "ok", uuid |-> SubSeq(parts[2], 2, Len(parts[2]) - 1)]

\* the inputs: what blkid printed (one or two lines) with the name looked
\* for, or the content of a file (two pieces, each the text a replacement
\* looks for, the text it puts, a "#" or nothing) with the list applied to it
InitText ==
    LET blkid_lines ==
          {<<"/", "a", "1", ":", " ", "U", "U", "I", "D", "=", QUOTE, "u", QUOTE>>,
         <<"/", "a", "1", ":", " ", "L", "A", "B", "E", "L", "=", QUOTE, "r", QUOTE,
            " ", "U", "U", "I", "D", "=", QUOTE, "u", QUOTE>>,
         <<"/", "a", "1", "0", ":", " ", "U", "U", "I", "D", "=", QUOTE, "v", QUOTE>>,
         <<"/", "b", ":", " ", "L", "A", "B", "E", "L", "=", QUOTE, "a", "1", QUOTE,
            " ", "U", "U", "I", "D", "=", QUOTE, "w", QUOTE>>,
         <<"/", "b", ":", " ", "U", "U", "I", "D", "=", QUOTE, "w", QUOTE>>,
         <<"/", "h", ":">>,
         <<"/", "h", ":", " ", "U", "U", "I", "D">>}
        names == {<<"a", "1">>, <<"h">>}
        pieces(list) == {list[i].from : i \in 1..Len(list)}
                        \cup {list[i].to : i \in 1..Len(list)} \cup {<<"#">>, <<>>}
    IN  /\ app_config = New(INSTALLATION_STEPS_COUNT)
        /\ answer = <<>>
        /\ lastStep = 0
        /\ \/ /\ pc = "blkid"
              /\ file \in {<<l \o <<NL>>>> : l \in blkid_lines}
                          \cup {<<l \o <<NL>> \o m \o <<NL>>>> : l \in blkid_lines,
                                                                m \in blkid_lines}
              /\ good \in names
              /\ cmds = <<>>
           \/ /\ pc = "patch"
              /\ cmds \in {Replacements[k] : k \in 1..Len(Replacements)}
              /\ file \in {<<p \o q>> : p \in pieces(cmds), q \in pieces(cmds)}
              /\ good = <<>>

\* find_uuid_in_blkid_command: blkid is run (a failure to launch it is
\* returned as Err), then its output is searched for the name in good
FindUuid ==
    /\ pc = "blkid"
    /\ \E launched \in BOOLEAN :
         LET u == partition_uuid(file[1], good) IN
         /\ pc' = IF ~launched THEN "aborted"
                  ELSE IF u.status = "ok" THEN "found" ELSE "panicked"
         /\ answer' = IF launched THEN u.uuid ELSE <<>>
    /\ UNCHANGED <<app_config, file, cmds, lastStep, good>>

\* a step reads the file, applies its replacement list and writes the file;
\* then the same once more.  good keeps the content before the last pass.
Patch ==
    /\ pc \in {"patch", "patched"}
    /\ pc' = IF pc = "patch" THEN "patched" ELSE "patched twice"
    /\ good' = file
    /\ file' = <<replace(file[1], cmds)>>
    /\ UNCHANGED <<app_config, answer, cmds, lastStep>>

SpecText == InitText /\ [][FindUuid \/ Patch]_vars

\* the lines of a listing that contain the name, in order
LinesWith(listing, name) ==
    LET ends == {i \in 1..Len(listing) : listing[i] = NL} \cup {Len(listing) + 1}
        starts == {1} \cup {i + 1 : i \in {j \in ends : j < Len(listing)}}
        endOf(s) == CHOOSE e \in ends : e >= s /\ \A f \in ends : f >= s => e <= f
        has(s) == \E i \in s..(endOf(s) - Len(name)) :
                     SubSeq(listing, i, i + Len(name) - 1) = name
        hits == {s \in starts : has(s)}
        nth(k) == CHOOSE s \in hits : Cardinality({t \in hits : t < s}) = k - 1
    IN  [k \in 1..Cardinality(hits) |-> SubSeq(listing, nth(k), endOf(nth(k)) - 1)]

\* the values U of the tokens UUID="U" of a line
QuotedUuids(line) ==
    LET key == <<"U", "U", "I", "D", "=", QUOTE>>
        at == {i \in 1..(Len(line) - 6) :
                 /\ SubSeq(line, i, i + 5) = key
                 /\ (i = 1 \/ IsSpace(line[i - 1]))
                 /\ \E j \in (i + 6)..Len(line) : line[j] = QUOTE}
        close(i) == CHOOSE j \in (i + 6)..Len(line) :
                       line[j] = QUOTE /\ \A k \in (i + 6)..(j - 1) : line[k] # QUOTE
    IN  {SubSeq(line, i + 6, close(i) - 1) : i \in at}

\* C22: when the first line of the listing that contains the name carries
\* a token UUID="U", wherever in the line, the extractor returns U without
\* the quotes.
C22_ExtractorReturnsTheQuotedUuid ==
    pc \in {"found", "panicked"} =>
        LET ls == LinesWith(file[1], good) IN
        (ls # <<>> /\ QuotedUuids(ls[1]) # {}) =>
            (pc = "found" /\ QuotedUuids(ls[1]) = {answer})

\* C23: when no line of the listing contains the name, the extractor
\* neither returns an identifier nor crashes: its caller gets an error value.
C23_NoMatchingLineIsAnErrorValue ==
    (pc # "blkid" /\ LinesWith(file[1], good) = <<>>) => pc \notin {"found", "panicked"}

\* C24: applying a step's replacement list to a file a second time leaves
\* the content the first pass produced.
C24_PatchingTwiceIsPatchingOnce ==
    pc = "patched twice" => file = good

\* C25: when the body of step k has succeeded and the run goes on, the next
\* thing that happens is the header of step k+1: it writes the state that
\* step k left, with current step k+1, whatever then becomes of the prompts
\* and commands of step k+1; and the record is written once per execution
\* of a step: the file changes only when a step is entered (and when it is
\* removed at the end), not at a retry inside a step.
C25_RecordWrittenOnceOnEnteringTheNextStep ==
    /\ [][(pc = "loop" /\ lastStep >= 1 /\ pc' # "start") =>
            /\ lastStep < app_config.total_installation_steps
            /\ app_config.current_installation_step = lastStep + 1
            /\ lastStep' = lastStep + 1
            /\ file' = <<save_config(app_config)>>]_vars
    /\ [][file' # file => (lastStep' # lastStep \/ Removing')]_vars
    /\ [][(pc = "ask" /\ pc' # "start") => (lastStep' = lastStep /\ file' = file)]_vars

\* step 5 has recorded root sda1 and step 6 has failed at its first command:
\* the record names step 6 and holds sda1
C25_Witness ==
    /\ lastStep = 6
    /\ pc = "aborted"
    /\ Len(cmds) = 2
    /\ cmds[2].r = "fail"
    /\ file # <<>>
    /\ PersistedStep(file) = 6
    /\ Loaded(file).cfg.root_partition = <<"s", "d", "a", "1">>

\* C26: the user that steps 22 and 23 hand to passwd and usermod is the
\* username of the state, at every attempt and in a resumed run too.
C26_PasswordAndGroupUseTheRecordedUser ==
    lastStep \in {22, 23} =>
        \A i \in 1..Len(cmds) :
            cmds[i].c \in {"arch-chroot /mnt passwd {}",
                           "arch-chroot /mnt usermod -aG wheel {}"} =>
                cmds[i].a = app_config.username

\* C27 (its case of step 19): the name step 19 writes into /mnt/etc/hosts
\* is a host name the operator entered in step 18, in a run resumed at step
\* 19 as in an uninterrupted one.
C27_ResumedStep19WritesTheHostName ==
    lastStep = 19 =>
        \A i \in 1..Len(cmds) :
            cmds[i].c = "write /mnt/etc/hosts {}" =>
                cmds[i].a \in {ask(host) : host \in HostLines}

\* ------------------------------------------- a record with any step and total

\* a default arm that takes the undefined step as a new start
UndefinedStartsOver ==
    /\ pc = "loop"
    /\ app_config.current_installation_step \notin 1..INSTALLATION_STEPS_COUNT
    /\ app_config' = reset(app_config)
    /\ UNCHANGED <<pc, answer, file, cmds, lastStep, good>>

\* the default arm of the match: panic!("Undefined step ...")
Undefined ==
    /\ pc = "loop"
    /\ app_config.current_installation_step \notin 1..INSTALLATION_STEPS_COUNT
    /\ pc' = "panicked"
    /\ UNCHANGED <<app_config, answer, file, cmds, lastStep, good>>

\* the program is started on a record, well formed, whose step and total
\* lines hold any numbers: one written by another version of the program, or
\* edited
InitRecord ==
    /\ pc = "start"
    /\ app_config = New(INSTALLATION_STEPS_COUNT)
    /\ answer = <<>>
    /\ \E step \in {0, 33, 34, 35}, total \in {20, 34, 40}, user \in {<<"u">>, <<"v">>} :
         file = <<save_config([New(total) EXCEPT
                                  !.root_partition = <<"s", "d", "a", "1">>,
                                  !.username = user,
                                  !.current_installation_step = step])>>
    /\ cmds = <<>>
    /\ lastStep = 0
    /\ good = file

\* main from its start to its end on such a record; steps 1 to 32 are not
\* part of this specification (a declined resume ends it)
SpecRecord ==
    InitRecord
    /\ [][Start \/ LoadConfig \/ ResumeAnswer \/ Undefined \/ Step33 \/ Step34 \/ Finish]_vars

\* C28: the sequencer runs a step only while the current step is at most
\* the total of the state: every step executed has an index within the
\* total of the record that was loaded.
C28_LoopRunsWhileStepWithinTotal ==
    lastStep >= 1 => lastStep <= app_config.total_installation_steps

\* C29: a current step outside 1..34 at the head of the loop ends the run
\* with a panic and nothing else: no header, no prompt, no command, the
\* record as it was found, and nothing after the panic.
C29_UndefinedStepIsFatal ==
    /\ [][(pc = "loop" /\ app_config.current_installation_step
                             \notin 1..INSTALLATION_STEPS_COUNT) =>
            /\ pc' = "panicked"
            /\ UNCHANGED <<app_config, answer, file, cmds, lastStep, good>>]_vars
    /\ []((pc = "panicked" /\ app_config.current_installation_step
                                 \notin 1..INSTALLATION_STEPS_COUNT) =>
            /\ cmds = <<>>
            /\ lastStep = 0
            /\ file = good)
    /\ [][pc = "panicked" => FALSE]_vars

\* the record named step 35 of 34, the operator chose to continue, and the
\* match has panicked
C29_Witness ==
    /\ pc = "panicked"
    /\ app_config.current_installation_step = 35
    /\ app_config.total_installation_steps = 34
    /\ answer \in Yes
    /\ cmds = <<>>
    /\ file = good

\* C30: in step 27 every failure of mkinitcpio (a non-zero exit, or no exit
\* status at all) is followed by the question whether to continue; after a
\* yes the step has completed and the run is at step 28, after a no the run
\* has ended with the record and the state at step 27; mkinitcpio is run at
\* most once in an execution of the step.
C30_FailedRebuildAsksWhetherToContinue ==
    lastStep = 27 =>
        LET q == "This error occured in 'mkiniticpio -p linux' command which can be expected. Given this inforamtion, do you want to continue?"
            runs == {i \in 1..Len(cmds) : cmds[i].c = "arch-chroot /mnt mkinitcpio -p linux"}
        IN  /\ Cardinality(runs) <= 1
            /\ \A i \in runs :
                 cmds[i].r # "ok" =>
                     IF i = Len(cmds) THEN pc = "ask"
                     ELSE cmds[i + 1].k = "ask" /\ cmds[i + 1].c = q
            /\ (Asked(q) /\ AnswerTo(q) \in Yes) =>
                 (pc = "loop" /\ app_config.current_installation_step = 28)
            /\ (Asked(q) /\ AnswerTo(q) \in No) =>
                 /\ pc = "aborted"
                 /\ app_config.current_installation_step = 27
                 /\ PersistedStep(file) = 27

\* ------------------------------------------------------------------ C31

\* C31: in step 15 the ln command is only run with an entered text that
\* contains "/"; every entered text without "/" is followed by the error
\* report and the yes/no question whether to enter it again; after yes the
\* time zone is asked again, after no the banner is printed and the run has
\* ended with the step still 15.
C31_TimeZoneCommandOnlyWithASlash ==
    lastStep = 15 =>
        LET zoneQ == "Enter your time zone."
            againQ == "Do you want to enter the time zone again?"
            ln == "arch-chroot /mnt ln -sf /mnt/etc/usr/share/zoneinfo/{} /etc/localtime"
            n == Len(cmds)
        IN  /\ {i \in 1..n : cmds[i].c = ln /\ ~Contains(cmds[i].a, "/")} = {}
            /\ {i \in 1..n : cmds[i].c = ln /\ (i = 1 \/ cmds[i - 1].c # zoneQ
                                                  \/ cmds[i - 1].a # cmds[i].a)} = {}
            /\ \A i \in 1..n :
                 (cmds[i].c = zoneQ /\ ~Contains(cmds[i].a, "/")) =>
                     /\ i + 1 <= n /\ cmds[i + 1] = Say("Error")
                     /\ IF i + 1 = n THEN At("ask", 15)
                        ELSE cmds[i + 2].k = "ask" /\ cmds[i + 2].c = againQ
            /\ \A i \in 1..n :
                 (cmds[i].c = againQ /\ cmds[i].a \in Yes) =>
                     i + 1 <= n /\ cmds[i + 1].k = "ask" /\ cmds[i + 1].c = zoneQ
            /\ \A i \in 1..n :
                 (cmds[i].c = againQ /\ cmds[i].a \notin Yes) =>
                     /\ cmds[i].a \in No
                     /\ i + 1 = n /\ cmds[n] = Say("Installation failed.")
                     /\ At("aborted", 15)
                     /\ PersistedStep(file) = 15

\* step 15 has completed after a text without "/" was entered, the operator
\* chose to enter it again, and the second text had one
C31_Witness ==
    /\ lastStep = 15
    /\ At("loop", 16)
    /\ \E i \in 1..Len(cmds) :
         /\ cmds[i].c = "Enter your time zone." /\ ~Contains(cmds[i].a, "/")
    /\ Asked("Do you want to enter the time zone again?")
    /\ Done("arch-chroot /mnt ln -sf /mnt/etc/usr/share/zoneinfo/{} /etc/localtime")

\* ================================================================ prompts
\* The two prompt loops on their own, on the lines an operator types.
\* pc is the loop that is running or how it returned, cmds the lines still
\* to be typed, file the lines read so far, answer question.answer and
\* lastStep the number of choices of the menu (0 for a yes/no question).

\* the number of lines the operator types at one prompt
MaxTyped == 2

InitAsk ==
    LET lines == { <<>>, <<"y">>, <<"Y">>, <<"n">>, <<"N">>, <<" ", "y">>, <<"N", " ">>,
                   <<"y", "e", "s">>, <<"x">>, <<"y", NL>>,
                   <<"1">>, <<"2">>, <<"3">>, <<"0">>, <<"0", "2">>, <<"+", "2">>,
                   <<" ", "2">>, <<"2", " ", "2">>, <<"2", "5", "7">>, <<"-", "1">>,
                   <<"+">>, <<"4">> }
    IN  /\ app_config = New(INSTALLATION_STEPS_COUNT)
        /\ answer = <<>>
        /\ file = <<>>
        /\ good = <<>>
        /\ cmds \in UNION {[1..n -> lines] : n \in 1..MaxTyped}
        /\ \/ pc = "bool_ask" /\ lastStep = 0
           \/ pc = "selecting_ask" /\ lastStep \in {2, 3}

\* one turn of the loop of bool_ask: the prompt, the line read and trimmed,
\* then the match on it
BoolAsk ==
    /\ pc = "bool_ask"
    /\ cmds # <<>>
    /\ LET r == bool_ask(<<Head(cmds)>>) IN
       pc' = IF ~r.done THEN "bool_ask"
             ELSE IF r.value THEN "returned true" ELSE "returned false"
    /\ answer' = ask(Head(cmds))
    /\ file' = Append(file, Head(cmds))
    /\ cmds' = Tail(cmds)
    /\ UNCHANGED <<app_config, lastStep, good>>

\* one turn of the loop of selecting_ask: the menu, the line read and
\* trimmed, then the parse and the range check
SelectingAsk ==
    /\ pc = "selecting_ask"
    /\ cmds # <<>>
    /\ pc' = IF selecting_ask(<<Head(cmds)>>, lastStep).done THEN "returned"
             ELSE "selecting_ask"
    /\ answer' = Trim(Head(cmds))
    /\ file' = Append(file, Head(cmds))
    /\ cmds' = Tail(cmds)
    /\ UNCHANGED <<app_config, lastStep, good>>

SpecAsk == InitAsk /\ [][BoolAsk \/ SelectingAsk]_vars

\* ------------------------------------------------------------------ C32

\* the integer a text denotes: decimal digits after an optional "+";
\* -1 for a text that denotes no integer of at least 0
IntegerOf(text) ==
    LET digits == IF text # <<>> /\ Head(text) = "+" THEN Tail(text) ELSE text IN
    IF digits = <<>> \/ {i \in 1..Len(digits) : ~IsDigit(digits[i])} # {} THEN -1
    ELSE DecValue(digits, 0)

\* C32: bool_ask has returned only when the trimmed text of the last line
\* read is y, Y, n or N, with true for y and Y and false for n and N;
\* selecting_ask has returned only when it denotes an integer from 1 to the
\* number of choices; after every other line the question is asked again.
C32_PromptsReturnOnlyOnARecognizedAnswer ==
    LET n == Len(file)
        yesNo == {<<"y">>, <<"Y">>, <<"n">>, <<"N">>}
        choice(l) == IntegerOf(Trim(l)) \in 1..lastStep
    IN  /\ (pc \in {"returned true", "returned false"}) =>
               /\ n >= 1 /\ answer = Trim(file[n])
               /\ answer \in yesNo
               /\ (pc = "returned true") = (answer \in {<<"y">>, <<"Y">>})
               /\ {i \in 1..(n - 1) : Trim(file[i]) \in yesNo} = {}
               /\ bool_ask(file) = [done |-> TRUE, answer |-> answer,
                                    value |-> pc = "returned true"]
        /\ pc = "bool_ask" =>
               /\ {i \in 1..n : Trim(file[i]) \in yesNo} = {}
               /\ ~bool_ask(file).done
        /\ pc = "returned" =>
               /\ n >= 1 /\ answer = Trim(file[n])
               /\ choice(file[n])
               /\ {i \in 1..(n - 1) : choice(file[i])} = {}
               /\ selecting_ask(file, lastStep) = [done |-> TRUE, answer |-> answer]
        /\ pc = "selecting_ask" =>
               /\ {i \in 1..n : choice(file[i])} = {}
               /\ ~selecting_ask(file, lastStep).done

\* bool_ask has returned false on " N" or "N " typed after a line it did not
\* recognize
C32_Witness ==
    /\ pc = "returned false"
    /\ Len(file) = 2
    /\ file[2] # answer
    /\ answer = <<"N">>

\* ------------------------------------------------------------------ C33

\* C33: when step 1 has completed, uefi_install is true exactly when the
\* text selecting_ask accepted denotes 2, and false exactly when it
\* denotes 1.
C33_ModeFollowsTheAcceptedNumber ==
    (lastStep = 1 /\ At("loop", 2)) =>
        /\ IntegerOf(answer) \in {1, 2}
        /\ app_config.uefi_install = (IntegerOf(answer) = 2)
        /\ (~app_config.uefi_install) = (IntegerOf(answer) = 1)

\* ------------------------------------------------------------------ C34

\* C34: when step 27 has completed with encrypted partitions, the encrypt
\* hook has been written to mkinitcpio.conf and mkinitcpio has been run,
\* whatever was answered to the two GPU questions.
C34_EncryptedInstallGetsTheEncryptHook ==
    (lastStep = 27 /\ At("loop", 28) /\ app_config.encrypted_partitons) =>
        /\ Done("write /mnt/etc/mkinitcpio.conf HOOKS encrypt")
        /\ Done("arch-chroot /mnt mkinitcpio -p linux")

\* ------------------------------------------------------------------ C35

\* what a yes/no question followed by a name leaves to record, from the
\* answers of the step that ran last
Recorded(q, nameQ) == IF AnswerTo(q) \in Yes THEN Some(AnswerTo(nameQ)) ELSE None

\* C35: when step 5 or step 7 has completed, in a first run or after a
\* resume, the boot, home and swap partitions are recorded exactly when yes
\* was answered in that execution, with the name entered in it; when step 1
\* or 2 has completed, uefi_install and encrypted_partitons are what was
\* answered in that execution.
C35_AnswersOfTheLastExecutionAreRecorded ==
    /\ (lastStep = 5 /\ At("loop", 6)) =>
           /\ app_config.boot_partition =
                  Recorded("Do you have a separate boot partition?",
                           "Enter the name of your boot partition: ")
           /\ app_config.home_partition =
                  Recorded("Do you have a separate home partition?",
                           "Enter the name of your home partition: ")
    /\ (lastStep = 7 /\ At("loop", 8)) =>
           app_config.swap_partition =
               Recorded("Do you want to enable swap?", "Enter name of the swap partition: ")
    /\ (lastStep = 1 /\ At("loop", 2)) =>
           app_config.uefi_install =
               (IntegerOf(AnswerTo("Which installation mode do you want?")) = 2)
    /\ (lastStep = 2 /\ At("loop", 3)) =>
           app_config.encrypted_partitons =
               (AnswerTo("Do you want to encrypt your root and home partitions?") \in Yes)

\* ------------------------------------------------------------------ C36

\* the positions in cmds of the command c run with the text a
Pos(c, a) == {i \in 1..Len(cmds) : cmds[i].k = "cmd" /\ cmds[i].c = c /\ cmds[i].a = a}

\* every command at a position of T was run after one of S had succeeded,
\* and none of S was run after one of T
Precedes(S, T) ==
    /\ T # {} => {i \in S : cmds[i].r = "ok"} # {}
    /\ {p \in S \X T : p[1] >= p[2]} = {}

\* C36: in step 8 the root is mounted before boot, boot before the EFI
\* partition and the root before home; in step 34 the EFI partition is
\* unmounted before boot, boot and home before the root, no umount follows
\* that of the root, and crypthome and cryptroot are closed only after
\* their umount.
C36_MountsAndUnmountsAreNested ==
    LET c == app_config
        name(o) == IF IsSome(o) THEN Unwrap(o) ELSE <<>>
        rootM == IF c.encrypted_partitons THEN Pos("mount /dev/mapper/cryptroot /mnt", <<>>)
                 ELSE Pos("mount /dev/{} /mnt", c.root_partition)
        bootM == Pos("mount /dev/{} /mnt/boot", name(c.boot_partition))
        efiM == Pos("mount /dev/{} /mnt/boot/EFI", name(c.uefi_partition))
        homeM == IF c.encrypted_partitons THEN Pos("mount /dev/mapper/crypthome /mnt/home", <<>>)
                 ELSE Pos("mount /dev/{} /mnt/home", name(c.home_partition))
        efiU == IF IsSome(c.uefi_partition) THEN Pos("umount /dev/{}", name(c.uefi_partition))
                ELSE {}
        bootU == IF IsSome(c.boot_partition) THEN Pos("umount /dev/{}", name(c.boot_partition))
                 ELSE {}
        homeU == IF ~IsSome(c.home_partition) THEN {}
                 ELSE IF c.encrypted_partitons THEN Pos("umount /dev/mapper/crypthome", <<>>)
                 ELSE Pos("umount /dev/{}", name(c.home_partition))
        rootU == IF c.encrypted_partitons THEN Pos("umount /dev/mapper/cryptroot", <<>>)
                 ELSE Pos("umount /dev/{}", c.root_partition)
        umounts == efiU \cup bootU \cup homeU \cup rootU
    IN  /\ lastStep = 8 =>
              /\ Precedes(rootM, bootM)
              /\ Precedes(rootM, efiM)
              /\ Precedes(rootM, homeM)
              /\ IsSome(c.boot_partition) => Precedes(bootM, efiM)
        /\ lastStep = 34 =>
              /\ IsSome(c.uefi_partition) => Precedes(efiU, bootU) /\ Precedes(efiU, rootU)
              /\ IsSome(c.boot_partition) => Precedes(bootU, rootU)
              /\ IsSome(c.home_partition) => Precedes(homeU, rootU)
              /\ {p \in rootU \X umounts : p[1] < p[2]} = {}
              /\ Precedes(homeU, Pos("cryptsetup close /dev/mapper/crypthome", <<>>))
              /\ Precedes(rootU, Pos("cryptsetup close /dev/mapper/cryptroot", <<>>))
              /\ Cardinality(umounts) =
                     Cardinality({i \in 1..Len(cmds) :
                                     cmds[i].c \in {"umount /dev/{}",
                                                    "umount /dev/mapper/crypthome",
                                                    "umount /dev/mapper/cryptroot"}})

\* step 34 has completed for an encrypted UEFI installation with boot and
\* home partitions: four umounts and two closes
C36_Witness ==
    /\ lastStep = 34
    /\ pc = "finish"
    /\ app_config.encrypted_partitons
    /\ IsSome(app_config.uefi_partition)
    /\ IsSome(app_config.boot_partition)
    /\ IsSome(app_config.home_partition)
    /\ Len(cmds) = 6
    /\ Done("cryptsetup close /dev/mapper/cryptroot")

\* ================================================================ one run
\* One run of main from its start to its end, on no file or on a record
\* found at the start; the process is not killed and not started again.
\* The names typed are sda1 and u, the mode is typed as 1 or 2, and the
\* boot, home and swap partitions are all there or all missing.

\* main has returned or panicked
Ended == pc \in {"quit", "done", "aborted", "panicked", "reboot_failed"}

NextRun ==
    /\ \/ Start \/ LoadConfig \/ ResumeAnswer \/ Undefined
       \/ Step1 \/ Step2 \/ Step3 \/ Step4 \/ Step5 \/ Step6 \/ Step7 \/ Step8
       \/ Step9 \/ Step10 \/ Step11 \/ Step12 \/ Step13 \/ Step14 \/ Step15
       \/ Step16 \/ Step17 \/ Step18 \/ Step19 \/ Step20 \/ Step21 \/ Step22
       \/ Step23 \/ Step24 \/ Step25 \/ Step26 \/ Step27 \/ Step28 \/ Step29
       \/ Step30 \/ Step31 \/ Step32 \/ Step33 \/ Step34
       \/ Retry15 \/ Retry20 \/ Retry21 \/ Retry22 \/ Continue27
       \/ Finish
    /\ (At("loop", 6) => app_config.root_partition = <<"s", "d", "a", "1">>)'
    /\ (At("loop", 22) => app_config.username = <<"u">>)'
    /\ (Asked("Which installation mode do you want?") =>
          AnswerTo("Which installation mode do you want?") \in {<<"1">>, <<"2">>})'
    /\ (app_config.current_installation_step > 5 =>
          IsSome(app_config.home_partition) = IsSome(app_config.boot_partition))'
    /\ (app_config.current_installation_step > 7 =>
          IsSome(app_config.swap_partition) = IsSome(app_config.boot_partition))'

\* every command returns, every prompt gets an answer that is accepted and
\* every retry question is answered: whatever main can do next, it does
SpecRun == (Init \/ InitRecord) /\ [][NextRun]_vars /\ WF_vars(NextRun)

\* ------------------------------------------------------------------ C37

\* steps are entered in increasing order, one by one, from the step the
\* run started at, and none after step 34
StepsRunOnceInOrder ==
    /\ [](lastStep \in 0..INSTALLATION_STEPS_COUNT)
    /\ []((pc \in {"loop", "ask"} /\ lastStep >= 1) =>
             app_config.current_installation_step
                 = lastStep + (IF pc = "loop" THEN 1 ELSE 0))
    /\ [][(lastStep' # lastStep /\ lastStep # 0 /\ lastStep' # 0) =>
             (lastStep' = lastStep + 1 /\ pc = "loop")]_vars
    /\ [][lastStep # 0 => lastStep' # 0]_vars

====
